---- MODULE Spec2Model ----
(***************************************************************************)
(* Video review modal of the retrieval frontend (static/js/video-player.js)*)
(* as a state machine: openModal / closeModal, the seek controller         *)
(* (ensureStartPosition), the listeners it leaves on the primary media     *)
(* element, and the media events the browser delivers to them.             *)
(*                                                                         *)
(* Times are integers in centiseconds (0.05s = 5, 0.25s = 25).             *)
(* A closure is identified by the number of the openModal call (session)   *)
(* and of the ensureStartPosition call (controller) that created it; the   *)
(* values it captured travel with the listener that references it, so the  *)
(* variables of a closure nothing references any more are not state.       *)
(***************************************************************************)
EXTENDS Integers, Sequences, FiniteSets, TLC

\* ---------------------------------------------------------------- bounds
MaxSessions == 2        \* openModal calls in one run
MaxErrors == 2          \* restart-load attempts of one streaming decoder
MaxPending == 2         \* hover decodes started and not yet completed
MaxFrame == 40          \* frames converted to seconds and back
MaxPosition == 8        \* position (cs) up to which frame steps are taken
                        \* while the duration is unknown
MaxRequests == 1        \* requests in flight and timers set by the page

\* ------------------------------------------------------ program constants
SeekTolerance == 5      \* Math.abs(currentTime - targetTime) < 0.05
DriftTolerance == 25    \* Math.abs(currentTime - targetTime) > 0.25
MaxSeekRetries == 4     \* seekRetries < 4
HoverTolerance == 50    \* Math.abs(previewVideo.currentTime - targetTime) > 0.5

\* ---------------------------------------------------------------- inputs
\* Result cards the user can click (results.js:146-152 passes their fields).
Cards ==
  { [videoId |-> "v1", start |-> 45, fps |-> 25, keyframeIndex |-> 11],
    [videoId |-> "v2", start |-> 0,  fps |-> 30, keyframeIndex |-> 0] }

\* Difference between the position the element reports right after an
\* assignment of currentTime and the assigned value.
SeekOffsets == {0, 26}

\* Duration of a media resource, and playback advance between two
\* time-update events, in centiseconds.
Durations == {90}
TickSteps == {0, 45}

NoVideo == "null"
NoHandlers == [sess |-> 0, mainHls |-> 0, previewHls |-> 0]
NoEffects == {}
NoClosure == [id |-> 0, videoId |-> NoVideo, startTime |-> 0, fps |-> 0]
Null == -1
Absent == "<absent>"   \* null or undefined where a string is expected
Idle == [op |-> "idle", time |-> -1, superseded |-> FALSE]

\* previewVideo before its resource's metadata is there: videoWidth and
\* videoHeight are 0, and so are clientWidth and clientHeight of an element
\* with display "none".
UnloadedPreview ==
  [ready |-> FALSE, dims |-> FALSE, currentTime |-> 0, seeking |-> FALSE]

\* The hover engine of an openModal closure as l.67-92 and l.294-298 leave
\* it: hoverTargetTime and hoverScheduled, the setTimeout callbacks not yet
\* run (timers), timelinePreview (box, label), previewImg (img), previewVideo
\* (pv) and the seek-completion listeners on it, each with the targetTime it
\* captured (seeked).  Not state of the program: where the pointer is on
\* the timeline (pointer), whether a recorded hover time was overwritten or
\* cleared since the last timer callback (overwritten), what the last timer
\* callback did (last) and what the listeners of the last seek completion
\* did (results).
NewHover ==
  [ hoverTargetTime |-> Null, hoverScheduled |-> FALSE, timers |-> 0,
    box |-> "none", label |-> 0,
    img |-> [display |-> "none", src |-> Null],
    pv |-> UnloadedPreview, seeked |-> << >>,
    pointer |-> Null, overwritten |-> FALSE, last |-> Idle, results |-> {} ]

\* The page as the script finds it when the document has loaded, with
\* nothing in local storage.  storage: localStorage; session:
\* appState.session; loggedIn: the class logged-in on the login button and
\* the status panel; container: what the results container shows; cards:
\* the result cards in it; toggle: the filter toggle is enabled; videoStats:
\* the Map of appState as a function from its keys; pending: requests in
\* flight and timers set.  Not state of the program: what the
\* last handler of the page did (last).
NewApp ==
  [ storage |-> [sessionId |-> Absent, evaluationId |-> Absent],
    session |-> [sessionId |-> Absent, evaluationId |-> Absent,
                 connected |-> FALSE],
    loggedIn |-> FALSE,
    loginBtn |-> [text |-> "Connect", disabled |-> FALSE],
    mode |-> "visual",
    allResults |-> << >>,
    filteredResults |-> << >>,
    selectedVideoId |-> Absent,
    videoStats |-> << >>,
    container |-> "placeholder",
    cards |-> << >>,
    toggle |-> FALSE,
    submitBtn |-> [disabled |-> FALSE, text |-> "Submit Frame"],
    pending |-> {},
    last |-> [op |-> "load", alert |-> "none", sent |-> {}, error |-> Absent,
              input |-> Absent, tick |-> 0] ]

VARIABLES
  hidden,               \* elements.modalOverlay.classList.contains("hidden")
  handlersAttached,     \* modalOverlay.dataset.handlersAttached === "true"
  cleanupHandlers,      \* modalOverlay._cleanupHandlers (NoHandlers = absent)
  currentOpenVideoId,   \* module variable
  video,                \* elements.modalVideoPlayer
  pendingTimeupdate,    \* a time-update task queued by load()
  listeners,            \* listeners on modalVideoPlayer: for each event
                        \* type its listeners in registration order
  keydown,              \* keydown listeners on document, registration order
  dom,                  \* children of videoWrapper created by openModal
  nSessions,            \* openModal calls so far
  nControllers,         \* ensureStartPosition calls so far
  hls,                  \* mainHls / previewHls of each openModal closure
  decoders,             \* Hls instances ever created
  panel,                \* shared current-video panel outside the modal
  runtime,              \* what the browser supports
  teardowns,            \* how many times closeModal ran its teardown
  hover,                \* hover preview engine of each openModal closure
  conversion,           \* frame, frame rate and seconds of a conversion
  app,                  \* the page around the modal: local storage,
                        \* appState, login and submit controls, result
                        \* cards, requests in flight
  effects               \* what the callbacks of the last step did to the
                        \* primary element and the displays

vars == << hidden, handlersAttached, cleanupHandlers, currentOpenVideoId,
           video, pendingTimeupdate, listeners, keydown, dom, nSessions,
           nControllers, hls, decoders, panel, runtime, teardowns, hover,
           conversion, app, effects >>

\* -------------------------------------------------------------- helpers
Abs(x) == IF x < 0 THEN -x ELSE x
Max(a, b) == IF a > b THEN a ELSE b
Min(a, b) == IF a < b THEN a ELSE b

RemoveAt(q, i) == [j \in 1..(Len(q) - 1) |-> IF j < i THEN q[j] ELSE q[j + 1]]

\* A listener: the event, the function, the controller (0 for functions of
\* openModal itself), the values its closure captured (k) and the
\* closure's seekRetries.
Listener(ev, fn, c, k) ==
  [ev |-> ev, fn |-> fn, c |-> c, k |-> k, seekRetries |-> 0]

\* Same function object: same function of the same closure.
SameFn(a, b) == a.ev = b.ev /\ a.fn = b.fn /\ a.c = b.c /\ a.k.id = b.k.id

EventTypes == {"timeupdate", "loadedmetadata", "seeked", "canplay"}
NoListeners == [ev \in EventTypes |-> << >>]

IsRegistered(q, l) == \E i \in 1..Len(q[l.ev]) : SameFn(q[l.ev][i], l)

IndexOf(q, l) == CHOOSE i \in 1..Len(q[l.ev]) : SameFn(q[l.ev][i], l)

\* EventTarget.removeEventListener
removeEventListener(q, l) ==
  IF IsRegistered(q, l) THEN [q EXCEPT ![l.ev] = RemoveAt(@, IndexOf(q, l))] ELSE q

\* EventTarget.addEventListener: a listener already registered is not
\* registered twice.
addEventListener(q, l) ==
  IF IsRegistered(q, l) THEN q ELSE [q EXCEPT ![l.ev] = Append(@, l)]

OnceFns == {"onReady", "onSeeked", "canplayRetry"}

\* The state as one record, so that a handler is a function on states.
\* env holds what the browser decides during the step.
State(env) ==
  [ hidden |-> hidden, handlersAttached |-> handlersAttached,
    cleanupHandlers |-> cleanupHandlers,
    currentOpenVideoId |-> currentOpenVideoId, video |-> video,
    pendingTimeupdate |-> pendingTimeupdate, listeners |-> listeners,
    keydown |-> keydown, dom |-> dom, nSessions |-> nSessions,
    nControllers |-> nControllers, hls |-> hls,
    decoders |-> decoders, panel |-> panel, runtime |-> runtime,
    teardowns |-> teardowns, hover |-> hover, conversion |-> conversion,
    app |-> app, effects |-> effects, env |-> env ]

Apply(st) ==
  /\ hidden' = st.hidden
  /\ handlersAttached' = st.handlersAttached
  /\ cleanupHandlers' = st.cleanupHandlers
  /\ currentOpenVideoId' = st.currentOpenVideoId
  /\ video' = st.video
  /\ pendingTimeupdate' = st.pendingTimeupdate
  /\ listeners' = st.listeners
  /\ keydown' = st.keydown
  /\ dom' = st.dom
  /\ nSessions' = st.nSessions
  /\ nControllers' = st.nControllers
  /\ hls' = st.hls
  /\ decoders' = st.decoders
  /\ panel' = st.panel
  /\ runtime' = st.runtime
  /\ teardowns' = st.teardowns
  /\ hover' = st.hover
  /\ conversion' = st.conversion
  /\ app' = st.app
  /\ effects' = st.effects

\* A step of the listeners on the primary element: they neither open nor
\* close the modal.
MediaFrame ==
  UNCHANGED << hidden, handlersAttached, cleanupHandlers, currentOpenVideoId,
               keydown, nSessions, nControllers, hls, decoders, runtime,
               teardowns, hover, conversion, app >>

ApplyMedia(st) ==
  /\ video' = st.video
  /\ pendingTimeupdate' = st.pendingTimeupdate
  /\ listeners' = st.listeners
  /\ dom' = st.dom
  /\ panel' = st.panel
  /\ effects' = st.effects

\* The session (openModal call) that is open in st, 0 when the modal is
\* closed.  Not a variable of the program: the newest closure.
ActiveSession(st) == IF st.hidden THEN 0 ELSE st.nSessions

\* const targetTime = Math.max(0, startTime)
TargetTime(k) == Max(0, k.startTime)

Effect(st, op, c, k, via) ==
  [ op |-> op, c |-> c, sess |-> k.id,
    active |-> (ActiveSession(st) = k.id),
    ready |-> (st.video.readyState >= 1),
    within |-> (Abs(st.video.currentTime - TargetTime(k)) < SeekTolerance),
    drift |-> (Abs(st.video.currentTime - TargetTime(k)) > DriftTolerance),
    via |-> via ]

Record(st, op, c, k, via) ==
  [st EXCEPT !.effects = @ \cup {Effect(st, op, c, k, via)}]

\* ------------------------------------------------------ the media element
EmptyVideo ==
  [ binding |-> "none", srcId |-> NoVideo, readyState |-> 0,
    currentTime |-> 0, paused |-> TRUE, duration |-> 0, seeking |-> FALSE ]

\* HTMLMediaElement.load(): the media element load algorithm resets the
\* element, drops its queued event tasks and queues a time-update when the
\* playback position was not 0.
load(st) ==
  [st EXCEPT !.pendingTimeupdate = (st.video.currentTime # 0),
             !.video.readyState = 0, !.video.currentTime = 0,
             !.video.paused = TRUE, !.video.duration = 0,
             !.video.seeking = FALSE]

\* HTMLMediaElement.pause()
pause(st) == [st EXCEPT !.video.paused = TRUE]

\* HTMLMediaElement.play(); the promise rejects when autoplay is blocked.
play(st) == [st EXCEPT !.video.paused = ~st.env.playOk]

\* Assignment to currentTime that did not throw: before metadata the value
\* becomes the default start position, afterwards the element seeks and
\* reports the clamped position, possibly not yet the assigned one.
setCurrentTime(st, t) ==
  IF st.video.readyState = 0
  THEN [st EXCEPT !.video.currentTime = t]
  ELSE [st EXCEPT !.video.currentTime = Max(0, Min(t + st.env.off, st.video.duration)),
                  !.video.seeking = TRUE]

\* ------------------------------------------------------- seek controller
\* The listeners of controller c, created in session closure k.
EnforceL(c, k) == Listener("timeupdate", "enforceTargetDuringPlayback", c, k)
OnReadyL(c, k) == Listener("loadedmetadata", "onReady", c, k)
OnSeekedL(c, k) == Listener("seeked", "onSeeked", c, k)
CanplayL(c, k) == Listener("canplay", "canplayRetry", c, k)

playAfterSeek(st, c, k, via) ==
  IF st.hidden \/ st.currentOpenVideoId # k.videoId
  THEN st
  ELSE play(Record(st, "play", c, k, via))

\* seekToTarget after the assignment of currentTime went through
AfterAssignment(s1, c, k) ==
  IF Abs(s1.video.currentTime - TargetTime(k)) < SeekTolerance
  THEN playAfterSeek(s1, c, k, "within")
  ELSE [s1 EXCEPT !.listeners = addEventListener(@, OnSeekedL(c, k))]

seekToTarget(st, c, k) ==
  IF st.env.throws
  THEN [st EXCEPT !.listeners = addEventListener(@, CanplayL(c, k))]
  ELSE AfterAssignment(
         Record(setCurrentTime(st, TargetTime(k)), "setpos", c, k, "seek"), c, k)

onSeeked(st, c, k) ==
  playAfterSeek([st EXCEPT !.listeners = removeEventListener(@, OnSeekedL(c, k))],
                c, k, "seeked")

\* seekRetries of controller c; the variable lives in the closure that the
\* enforcement listener references.
SeekRetries(st, c, k) ==
  st.listeners["timeupdate"][IndexOf(st.listeners, EnforceL(c, k))].seekRetries

\* seekRetries += 1
CountRetry(st, c, k) ==
  [st EXCEPT !.listeners["timeupdate"][IndexOf(st.listeners, EnforceL(c, k))].seekRetries = @ + 1]

\* try { video.currentTime = targetTime } catch (_) {}
Reseek(st, c, k) ==
  IF st.env.throws
  THEN st
  ELSE setCurrentTime(Record(st, "reseek", c, k, "timeupdate"), TargetTime(k))

\* Enforcement that keeps listening once the drift is within tolerance or
\* the retries are used up.
enforceWithoutGivingUp(st, c, k) ==
  IF st.hidden \/ st.currentOpenVideoId # k.videoId
  THEN [st EXCEPT !.listeners = removeEventListener(@, EnforceL(c, k))]
  ELSE IF /\ Abs(st.video.currentTime - TargetTime(k)) > DriftTolerance
          /\ SeekRetries(st, c, k) < MaxSeekRetries
       THEN Reseek(CountRetry(st, c, k), c, k)
       ELSE st

enforceTargetDuringPlayback(st, c, k) ==
  IF st.hidden \/ st.currentOpenVideoId # k.videoId
  THEN [st EXCEPT !.listeners = removeEventListener(@, EnforceL(c, k))]
  ELSE IF /\ Abs(st.video.currentTime - TargetTime(k)) > DriftTolerance
          /\ SeekRetries(st, c, k) < MaxSeekRetries
       THEN Reseek(CountRetry(st, c, k), c, k)
       ELSE [st EXCEPT !.listeners = removeEventListener(@, EnforceL(c, k))]

\* onReady that leaves the position where it is
onReadyWithoutSeek(st, c, k) == pause(Record(st, "pause", c, k, "ready"))

onReady(st, c, k) == seekToTarget(pause(Record(st, "pause", c, k, "ready")), c, k)

\* ensureStartPosition once the enforcement listener of controller c is on
StartController(s1, c, k) ==
  IF s1.video.readyState >= 1
  THEN onReady(s1, c, k)
  ELSE [s1 EXCEPT !.listeners = addEventListener(@, OnReadyL(c, k))]

ensureStartPosition(st, k) ==
  StartController(
    [st EXCEPT !.nControllers = @ + 1,
               !.listeners = addEventListener(@, EnforceL(st.nControllers + 1, k))],
    st.nControllers + 1, k)

\* ---------------------------------------------------- frame-sync display
ProgressL(k) == Listener("timeupdate", "updateProgress", 0, k)
FrameInfoTL(k) == Listener("timeupdate", "updateFrameInfo", 0, k)
FrameInfoML(k) == Listener("loadedmetadata", "updateFrameInfo", 0, k)

DisplayEffect(st, op, k) ==
  [ op |-> op, c |-> 0, sess |-> k.id, active |-> (ActiveSession(st) = k.id),
    ready |-> (st.video.readyState >= 1), within |-> FALSE, drift |-> FALSE,
    via |-> "event" ]

\* Math.floor(seconds * fps), seconds in centiseconds
FrameOf(cs, fps) == (cs * fps) \div 100

formatTime(cs) == << (cs \div 100) \div 60, (cs \div 100) % 60 >>

updateVideoInfo(st, videoId, frameIndex, timeSeconds, fps) ==
  [st EXCEPT !.panel = [ videoId |-> videoId, frame |-> frameIndex,
                         time |-> formatTime(timeSeconds), fps |-> fps,
                         writer |-> st.nSessions ]]

updateVideoInfoFromPlayer(st, k) ==
  [st EXCEPT !.panel.frame = FrameOf(st.video.currentTime, k.fps),
             !.panel.time = formatTime(st.video.currentTime),
             !.panel.fps = k.fps,
             !.panel.writer = k.id]

\* The nodes openModal creates; a node taken out of the document is
\* dropped, a write to such a node shows nowhere.
TimelineBar(s, width) == [sess |-> s, width |-> width]
InfoBar(s, frame, total, fps) == [sess |-> s, frame |-> frame, total |-> total, fps |-> fps]
PreviewVideo(s, src) == [sess |-> s, src |-> src]

updateProgress(st, k) ==
  IF st.video.duration = 0
  THEN st
  ELSE [st EXCEPT
          !.dom.timeline =
             { IF n.sess = k.id
               THEN TimelineBar(k.id, (st.video.currentTime * 100) \div st.video.duration)
               ELSE n : n \in @ },
          !.effects = @ \cup {DisplayEffect(st, "updateProgress", k)}]

\* updateFrameInfo that leaves the shared panel alone
updateFrameInfoBarOnly(st, k) ==
  IF st.video.duration = 0
  THEN st
  ELSE [st EXCEPT
          !.dom.infobar =
             { IF n.sess = k.id
               THEN InfoBar(k.id, FrameOf(st.video.currentTime, k.fps),
                            FrameOf(st.video.duration, k.fps), k.fps)
               ELSE n : n \in @ },
          !.effects = @ \cup {DisplayEffect(st, "updateFrameInfo", k)}]

updateFrameInfo(st, k) ==
  IF st.video.duration = 0
  THEN st
  ELSE updateVideoInfoFromPlayer(
         [st EXCEPT
            !.dom.infobar =
               { IF n.sess = k.id
                 THEN InfoBar(k.id, FrameOf(st.video.currentTime, k.fps),
                              FrameOf(st.video.duration, k.fps), k.fps)
                 ELSE n : n \in @ },
            !.effects = @ \cup {DisplayEffect(st, "updateFrameInfo", k)}],
         k)

\* ------------------------------------------------------- event dispatch
Invoke(st, l) ==
  CASE l.fn = "enforceTargetDuringPlayback" -> enforceTargetDuringPlayback(st, l.c, l.k)
    [] l.fn = "onReady" -> onReady(st, l.c, l.k)
    [] l.fn = "onSeeked" -> onSeeked(st, l.c, l.k)
    [] l.fn = "canplayRetry" -> seekToTarget(st, l.c, l.k)
    [] l.fn = "updateProgress" -> updateProgress(st, l.k)
    [] l.fn = "updateFrameInfo" -> updateFrameInfo(st, l.k)

\* EventTarget.dispatchEvent: the listeners registered when the dispatch
\* starts run in registration order; one removed meanwhile is skipped, a
\* { once: true } listener is removed before it runs.
RECURSIVE DispatchTo(_, _)
DispatchTo(st, snapshot) ==
  IF snapshot = << >>
  THEN st
  ELSE LET l == Head(snapshot) IN
       IF ~IsRegistered(st.listeners, l)
       THEN DispatchTo(st, Tail(snapshot))
       ELSE LET s1 == IF l.fn \in OnceFns
                      THEN [st EXCEPT !.listeners = removeEventListener(@, l)]
                      ELSE st
            IN  DispatchTo(Invoke(s1, l), Tail(snapshot))

Dispatch(st, ev) ==
  DispatchTo([st EXCEPT !.effects = NoEffects], st.listeners[ev])

\* ------------------------------------------------------ source resolver
\* new Hls(...): the index of the instance in decoders.  An instance knows
\* the closure (k) its handlers were created in, whether its manifest was
\* parsed, and how often it was asked to restart loading (startLoad).
NewDecoder(st, k, role) ==
  [st EXCEPT !.decoders =
     Append(@, [ sess |-> k.id, role |-> role, destroyed |-> 0, k |-> k,
                 parsed |-> FALSE, restarts |-> 0 ])]

\* hls.destroy(): the instance detaches its handlers and stops loading; of
\* a destroyed instance only the number of destroy() calls is kept.
destroy(st, d) ==
  [st EXCEPT !.decoders[d].destroyed = @ + 1,
             !.decoders[d].parsed = FALSE,
             !.decoders[d].restarts = 0]

updateCleanupRefs(st, k) ==
  IF st.cleanupHandlers # NoHandlers
  THEN [st EXCEPT !.cleanupHandlers.mainHls = st.hls[k.id].mainHls,
                  !.cleanupHandlers.previewHls = st.hls[k.id].previewHls]
  ELSE st

\* elements.modalVideoPlayer.src = url; elements.modalVideoPlayer.load()
BindPrimary(st, kind, k) ==
  load([st EXCEPT !.video.binding = kind, !.video.srcId = k.videoId])

\* previewVideo.src = url; previewVideo.load()
BindPreview(st, kind, k) ==
  [st EXCEPT !.dom.preview =
               { IF n.sess = k.id THEN PreviewVideo(k.id, kind) ELSE n : n \in @ },
             !.hover[k.id].pv = UnloadedPreview]

\* if (mainHls) { mainHls.destroy(); mainHls = null; }
DestroyMain(st, k) ==
  IF st.hls[k.id].mainHls # 0
  THEN [destroy(st, st.hls[k.id].mainHls) EXCEPT !.hls[k.id].mainHls = 0]
  ELSE st

\* if (previewHls) { previewHls.destroy(); previewHls = null; }
DestroyPreview(st, k) ==
  IF st.hls[k.id].previewHls # 0
  THEN [destroy(st, st.hls[k.id].previewHls) EXCEPT !.hls[k.id].previewHls = 0]
  ELSE st

setupMp4Playback(st, k) ==
  BindPreview(
    ensureStartPosition(
      BindPrimary(updateCleanupRefs(DestroyPreview(DestroyMain(st, k), k), k),
                  "progressive-file", k),
      k),
    "progressive-file", k)

setupNativeHlsPlayback(st, k) ==
  BindPreview(ensureStartPosition(BindPrimary(st, "segmented-stream", k), k),
              "segmented-stream", k)

setupHlsPlayback(st, k) ==
  IF st.runtime.hlsSupported
  THEN LET s1 == NewDecoder(st, k, "main")
           s2 == BindPrimary([s1 EXCEPT !.hls[k.id].mainHls = Len(s1.decoders)],
                             "segmented-stream", k)
           s3 == NewDecoder(s2, k, "preview")
           s4 == BindPreview([s3 EXCEPT !.hls[k.id].previewHls = Len(s3.decoders)],
                             "segmented-stream", k)
       IN  updateCleanupRefs(s4, k)
  ELSE IF st.runtime.nativeHls
       THEN updateCleanupRefs(setupNativeHlsPlayback(st, k), k)
       ELSE setupMp4Playback(st, k)

\* mainHls.on(Hls.Events.MANIFEST_PARSED, ensureStartPosition), for the
\* instance d
onManifestParsed(st, d) ==
  ensureStartPosition([st EXCEPT !.decoders[d].parsed = TRUE], st.decoders[d].k)

\* mainHls.destroy(); mainHls = null
DropMain(st, k) ==
  [destroy(st, st.hls[k.id].mainHls) EXCEPT !.hls[k.id].mainHls = 0]

\* The error handler that treats a manifest load error like any other
\* fatal network error.
onErrorWithoutFallback(st, k, data) ==
  IF ~data.fatal
  THEN st
  ELSE CASE data.type = "networkError" ->
              [st EXCEPT !.decoders[st.hls[k.id].mainHls].restarts = @ + 1]
         [] data.type = "mediaError" ->
              st
         [] OTHER -> DropMain(st, k)

\* mainHls.on(Hls.Events.ERROR, function (_, data) { ... }) of the session
\* with closure k; startLoad() is counted on the instance mainHls refers
\* to, recoverMediaError() changes nothing the modal looks at.
onError(st, k, data) ==
  IF ~data.fatal
  THEN st
  ELSE IF data.type = "networkError" /\ data.details = "manifestLoadError"
       THEN setupMp4Playback(DropMain(st, k), k)
       ELSE CASE data.type = "networkError" ->
                   [st EXCEPT !.decoders[st.hls[k.id].mainHls].restarts = @ + 1]
              [] data.type = "mediaError" ->
                   st
              [] OTHER -> DropMain(st, k)

\* The resolver with segmented streaming switched on.
verifyWithStreaming(st, k) == setupHlsPlayback(st, k)

verifyAndInitializePlayback(st, k) == setupMp4Playback(st, k)

\* ---------------------------------------------------- lifecycle manager
\* h.timelineBar.remove() and l.588-591: the timeline bar with the preview
\* box and image is out of the document, previewVideo is unloaded and out
\* of the document, and no event reaches the listeners it had; the pointer
\* is over the bar no more.
Detached(h) ==
  [h EXCEPT !.box = "none", !.label = 0,
            !.img = [display |-> "none", src |-> Null],
            !.pv = UnloadedPreview, !.seeked = << >>,
            !.pointer = Null, !.overwritten = FALSE, !.last = Idle,
            !.results = {}]

\* The functions of session s as closeModal finds them through the stored
\* handles (only their identity matters).
HandleOf(s) == [NoClosure EXCEPT !.id = s]

\* closeModal that does not destroy the decoders behind the handles
DestroyHandleSkipped(st, d) == st

\* if (h.previewHls) h.previewHls.destroy(), and the same for h.mainHls
DestroyHandle(st, d) == IF d # 0 THEN destroy(st, d) ELSE st

\* Teardown that leaves the frame-sync listeners on the element.
TeardownKeepsFrameSync(st, h) ==
  [DestroyHandle(
     DestroyHandle(
       [st EXCEPT
          !.keydown = SelectSeq(@, LAMBDA f : f.id # h.sess),
          !.dom.timeline = { n \in @ : n.sess # h.sess },
          !.dom.infobar = { n \in @ : n.sess # h.sess },
          !.listeners = removeEventListener(@, ProgressL(HandleOf(h.sess)))],
       h.previewHls),
     h.mainHls)
   EXCEPT !.dom.preview = { n \in @ : n.sess # h.sess },
          !.hover[h.sess] = Detached(@)]

\* The body of `if (h) { ... }` in closeModal: what is released through the
\* stored handles.
Teardown(st, h) ==
  [DestroyHandle(
     DestroyHandle(
       [st EXCEPT
          !.keydown = SelectSeq(@, LAMBDA f : f.id # h.sess),
          !.dom.timeline = { n \in @ : n.sess # h.sess },
          !.dom.infobar = { n \in @ : n.sess # h.sess },
          !.listeners =
             removeEventListener(
               removeEventListener(
                 removeEventListener(@, ProgressL(HandleOf(h.sess))),
                 FrameInfoTL(HandleOf(h.sess))),
               FrameInfoML(HandleOf(h.sess)))],
       h.previewHls),
     h.mainHls)
   EXCEPT !.dom.preview = { n \in @ : n.sess # h.sess },
          !.hover[h.sess] = Detached(@)]

\* if (dataset.handlersAttached === "true") { ... } in closeModal
ReleaseHandles(st) ==
  IF st.handlersAttached
  THEN [(IF st.cleanupHandlers # NoHandlers
         THEN Teardown(st, st.cleanupHandlers)
         ELSE st)
        EXCEPT !.cleanupHandlers = NoHandlers, !.handlersAttached = FALSE]
  ELSE st

\* closeModal past its first line
CloseOpenModal(st) ==
  load(pause([ReleaseHandles(st) EXCEPT
                !.currentOpenVideoId = NoVideo, !.hidden = TRUE,
                !.teardowns = @ + 1, !.effects = NoEffects,
                !.video.binding = "none", !.video.srcId = NoVideo]))

\* closeModal without `if (hidden) return`
closeModalNoGuard(st) == CloseOpenModal(st)

closeModal(st) == IF st.hidden THEN st ELSE CloseOpenModal(st)

\* videoWrapper.querySelector('.video-timeline'): the first one in the
\* document; timeline bars are appended.
OldTimeline(st) ==
  { n \in st.dom.timeline : \A m \in st.dom.timeline : n.sess <= m.sess }

\* videoWrapper.querySelector('.video-info-bar'); info bars are inserted
\* as first child.
OldInfoBar(st) ==
  { n \in st.dom.infobar : \A m \in st.dom.infobar : n.sess >= m.sess }

Closure(n, card) ==
  [id |-> n, videoId |-> card.videoId, startTime |-> card.start, fps |-> card.fps]

\* openModal, l.19-36: the overlay is shown and the shared panel written
ShowModal(s0, k, card) ==
  updateVideoInfo(
    [s0 EXCEPT !.currentOpenVideoId = card.videoId,
               !.nSessions = k.id,
               !.hls = Append(@, [mainHls |-> 0, previewHls |-> 0]),
               !.hover = Append(@, NewHover),
               !.hidden = FALSE, !.effects = NoEffects],
    card.videoId, card.keyframeIndex, card.start, card.fps)

\* openModal, l.38-92: old nodes out, timeline and preview element in
BuildTimeline(s2, k) ==
  [s2 EXCEPT !.dom.timeline = (@ \ OldTimeline(s2)) \cup {TimelineBar(k.id, 0)},
             !.dom.infobar = @ \ OldInfoBar(s2),
             !.dom.preview = @ \cup {PreviewVideo(k.id, "none")}]

\* openModal, l.434-437: the frame display is written at once when the
\* duration is known
InitialFrameInfo(s6, k) ==
  IF s6.video.duration # 0 THEN updateFrameInfo(s6, k) ELSE s6

\* openModal, l.389-437: progress listener, info bar, frame-sync listeners
AttachDisplays(s4, k) ==
  InitialFrameInfo(
    [s4 EXCEPT !.listeners =
                  addEventListener(
                    addEventListener(addEventListener(@, ProgressL(k)),
                                     FrameInfoTL(k)),
                    FrameInfoML(k)),
               !.dom.infobar = @ \cup {InfoBar(k.id, 0, 0, k.fps)}],
    k)

\* openModal, l.461-554: the submit control as "Submit Frame", keydown
\* handler and cleanup handles
StoreHandles(s7, k) ==
  updateCleanupRefs(
    [s7 EXCEPT !.app.submitBtn = [disabled |-> FALSE, text |-> "Submit Frame"],
               !.keydown = Append(@, k),
               !.handlersAttached = TRUE,
               !.cleanupHandlers = [ sess |-> k.id,
                                     previewHls |-> s7.hls[k.id].previewHls,
                                     mainHls |-> s7.hls[k.id].mainHls ]],
    k)

\* openModal past its first line, as the session with closure k
OpenSession(s0, k, card) ==
  StoreHandles(
    AttachDisplays(
      verifyAndInitializePlayback(BuildTimeline(ShowModal(s0, k, card), k), k),
      k),
    k)

\* openModal without the teardown of the session that is still open.
openModalNoTeardown(st, card) ==
  OpenSession(st, Closure(st.nSessions + 1, card), card)

openModal(st, card) ==
  OpenSession(closeModal(st), Closure(closeModal(st).nSessions + 1, card), card)

\* openModal past its first line when l.292 calls setupHlsPlayback
OpenStreamingSession(s0, k, card) ==
  StoreHandles(
    AttachDisplays(setupHlsPlayback(BuildTimeline(ShowModal(s0, k, card), k), k),
                   k),
    k)

openModalStreaming(st, card) ==
  OpenStreamingSession(closeModal(st),
                       Closure(closeModal(st).nSessions + 1, card), card)

handleTimelineClick(st, k, percent) ==
  IF st.video.duration = 0
  THEN st
  ELSE setCurrentTime([st EXCEPT !.effects = NoEffects],
                      (percent * st.video.duration) \div 100)

\* const oneFrameTime = 1.0 / frameRate, in centiseconds: whole for the
\* frame rates that divide 100.
OneFrameTime(fps) == 100 \div fps

\* currentTime = Math.max(0, Math.min(newTime, duration || Infinity))
handleFrameStep(st, k, direction) ==
  updateVideoInfoFromPlayer(
    updateFrameInfo(
      setCurrentTime(
        pause([st EXCEPT !.effects = NoEffects]),
        Max(0, IF st.video.duration = 0
               THEN st.video.currentTime + direction * OneFrameTime(k.fps)
               ELSE Min(st.video.currentTime + direction * OneFrameTime(k.fps),
                        st.video.duration))),
      k),
    k)

handleKeyPress(st, k, key) ==
  IF st.hidden
  THEN st
  ELSE IF key = "ArrowLeft"
  THEN handleFrameStep(st, k, -1)
  ELSE IF key = "ArrowRight"
  THEN handleFrameStep(st, k, 1)
  ELSE IF key = " "
       THEN IF st.video.paused
            THEN play([st EXCEPT !.effects = NoEffects])
            ELSE pause([st EXCEPT !.effects = NoEffects])
       ELSE IF key = "Escape" THEN closeModal(st) ELSE st

RECURSIVE DispatchKey(_, _, _)
DispatchKey(st, snapshot, key) ==
  IF snapshot = << >>
  THEN st
  ELSE IF \E i \in 1..Len(st.keydown) : st.keydown[i].id = Head(snapshot).id
       THEN DispatchKey(handleKeyPress(st, Head(snapshot), key), Tail(snapshot), key)
       ELSE DispatchKey(st, Tail(snapshot), key)

\* ------------------------------------------------- time/frame conversion
\* A JavaScript number (IEEE 754 binary64) that is 0 or positive:
\* (1 + f / 2^52) * 2^e, the 52 fraction bits f as four digits of 13 bits,
\* the most significant first.
Limb == 2 ^ 13
Zero == [zero |-> TRUE, e |-> 0, f |-> << 0, 0, 0, 0 >>]

\* num/den brought into [1, 2) by powers of two
RECURSIVE Normalise(_, _, _)
Normalise(num, den, e) ==
  IF num >= 2 * den THEN Normalise(num, 2 * den, e + 1)
  ELSE IF num < den THEN Normalise(2 * num, den, e - 1)
  ELSE [num |-> num, den |-> den, e |-> e]

\* The remainder after i digits of the fraction of n.num / n.den.
RECURSIVE Remainder(_, _)
Remainder(n, i) ==
  IF i = 0 THEN n.num - n.den ELSE (Remainder(n, i - 1) * Limb) % n.den

\* Round to nearest, ties to even: the number with fraction f and exponent
\* e, or the next one up; up says the discarded part is more than half a
\* unit in the last place, tie that it is exactly half.
Rounded(f, e, up, tie) ==
  IF ~(up \/ (tie /\ f[4] % 2 = 1))
  THEN [zero |-> FALSE, e |-> e, f |-> f]
  ELSE IF \A i \in 1..4 : f[i] = Limb - 1
       THEN [zero |-> FALSE, e |-> e + 1, f |-> << 0, 0, 0, 0 >>]
       ELSE [zero |-> FALSE, e |-> e,
             f |-> [i \in 1..4 |->
                      IF \A j \in (i + 1)..4 : f[j] = Limb - 1
                      THEN (f[i] + 1) % Limb
                      ELSE f[i]]]

\* The quotient of a division normalised to n.
Quotient(n) ==
  Rounded([i \in 1..4 |-> (Remainder(n, i - 1) * Limb) \div n.den], n.e,
          2 * Remainder(n, 4) > n.den, 2 * Remainder(n, 4) = n.den)

\* const timeSeconds = currentFrame / frameRate (submit handler), for
\* integers frame >= 0 and fps > 0
SecondsOf(frame, fps) ==
  IF frame = 0 THEN Zero ELSE Quotient(Normalise(frame, fps, 0))

\* The carry out of digit i of (1 + f / 2^52) * n.
RECURSIVE Carry(_, _, _)
Carry(f, n, i) ==
  IF i > 4 THEN 0 ELSE (f[i] * n + Carry(f, n, i + 1)) \div Limb

\* The exact product (1 + f / 2^52) * n: its integer part and the digits
\* of its fraction.
Product(f, n) ==
  [top |-> n + Carry(f, n, 1),
   f |-> [i \in 1..4 |-> (f[i] * n + Carry(f, n, i + 1)) % Limb]]

\* The product p brought into [1, 2) by s bits and rounded; e is the
\* exponent of the factor.
RoundProduct(p, s, e) ==
  Rounded([i \in 1..4 |->
             ((IF i = 1 THEN p.top ELSE p.f[i - 1]) % (2 ^ s)) * (Limb \div 2 ^ s)
               + p.f[i] \div (2 ^ s)],
          e + s,
          2 * (p.f[4] % (2 ^ s)) > 2 ^ s,
          s > 0 /\ 2 * (p.f[4] % (2 ^ s)) = 2 ^ s)

\* x * n in JavaScript, for an integer n > 0
Multiply(x, n) ==
  IF x.zero
  THEN Zero
  ELSE RoundProduct(Product(x.f, n),
                    CHOOSE s \in 0..30 : /\ 2 ^ s <= Product(x.f, n).top
                                         /\ Product(x.f, n).top < 2 ^ (s + 1),
                    x.e)

\* Math.floor(x), for x < 2^26
Floor(x) ==
  IF x.zero \/ x.e < 0
  THEN 0
  ELSE IF x.e <= 13
       THEN 2 ^ x.e + x.f[1] \div (Limb \div 2 ^ x.e)
       ELSE 2 ^ x.e + x.f[1] * (2 ^ x.e \div Limb)
                    + x.f[2] \div ((Limb * Limb) \div 2 ^ x.e)

\* Math.floor(currentTime * frameRate) (getCurrentFrame)
FrameOfSeconds(seconds, fps) == Floor(Multiply(seconds, fps))

\* The significand of a number as six digits, the leading 1 first and a
\* digit of guard bits last.
Significand(x) == << 1, x.f[1], x.f[2], x.f[3], x.f[4], 0 >>

\* Six digits moved d bits down and s bits up, d and s below 13
ShiftRight(m, d) ==
  [i \in 1..6 |-> m[i] \div 2 ^ d
                   + (IF i = 1 THEN 0 ELSE (m[i - 1] % 2 ^ d) * (Limb \div 2 ^ d))]
ShiftLeft(m, s) ==
  [i \in 1..6 |-> (IF i = 1 THEN m[i] * 2 ^ s ELSE (m[i] * 2 ^ s) % Limb)
                   + (IF i = 6 THEN 0 ELSE m[i + 1] \div (Limb \div 2 ^ s))]

\* The carry into digit i of a + b, and the borrow from digit i of a - b
RECURSIVE CarryInto(_, _, _)
CarryInto(a, b, i) ==
  IF i = 6 THEN 0 ELSE (a[i + 1] + b[i + 1] + CarryInto(a, b, i + 1)) \div Limb
RECURSIVE BorrowFrom(_, _, _)
BorrowFrom(a, b, i) ==
  IF i = 6 THEN 0
  ELSE IF a[i + 1] - b[i + 1] - BorrowFrom(a, b, i + 1) < 0 THEN 1 ELSE 0

Plus(a, b) ==
  [i \in 1..6 |-> IF i = 1
                  THEN a[i] + b[i] + CarryInto(a, b, i)
                  ELSE (a[i] + b[i] + CarryInto(a, b, i)) % Limb]
Minus(a, b) ==
  [i \in 1..6 |-> (a[i] - b[i] - BorrowFrom(a, b, i) + Limb) % Limb]

\* Six digits with leading digit 1 rounded to a number of exponent e
RoundDigits(m, e) ==
  Rounded(<< m[2], m[3], m[4], m[5] >>, e,
          m[6] > Limb \div 2, m[6] = Limb \div 2)

\* A sum of digits with leading digit 1, 2 or 3, and a difference of
\* digits with its leading 1 at most 12 bits down, as numbers
RoundSum(m, e) ==
  IF m[1] >= 2 THEN RoundDigits(ShiftRight(m, 1), e + 1) ELSE RoundDigits(m, e)
RoundDifference(m, e) ==
  IF \A i \in 1..6 : m[i] = 0
  THEN Zero
  ELSE RoundDigits(ShiftLeft(m, CHOOSE s \in 0..12 : ShiftLeft(m, s)[1] = 1),
                   e - (CHOOSE s \in 0..12 : ShiftLeft(m, s)[1] = 1))

\* x + y and x - y in JavaScript, for x = 0 or x >= y >= 0 with exponents
\* less than 13 apart
Sum(x, y) ==
  IF y.zero THEN x
  ELSE IF x.zero THEN y
  ELSE RoundSum(Plus(Significand(x), ShiftRight(Significand(y), x.e - y.e)), x.e)
Difference(x, y) ==
  IF y.zero THEN x
  ELSE RoundDifference(Minus(Significand(x),
                             ShiftRight(Significand(y), x.e - y.e)), x.e)

NoConversion ==
  [stage |-> "none", frame |-> 0, fps |-> 1, seconds |-> Zero, back |-> 0]

\* --------------------------------------------------- hover preview engine
Result(h, targetTime, outcome) ==
  [target |-> targetTime, actual |-> h.pv.currentTime, outcome |-> outcome]

\* l.310-322 with a catch block that leaves the image as it is
CaptureKeepsImage(h, targetTime, throws) ==
  IF ~h.pv.dims
  THEN [h EXCEPT !.results = @ \cup {Result(h, targetTime, "nodims")}]
  ELSE IF throws
       THEN [h EXCEPT !.results = @ \cup {Result(h, targetTime, "threw")}]
       ELSE [h EXCEPT !.img = [display |-> "block", src |-> h.pv.currentTime],
                      !.results = @ \cup {Result(h, targetTime, "rendered")}]

\* onSeeked past its guard, l.310-322; throws: drawImage or toDataURL
\* throws.
CaptureFrame(h, targetTime, throws) ==
  IF ~h.pv.dims
  THEN [h EXCEPT !.results = @ \cup {Result(h, targetTime, "nodims")}]
  ELSE IF throws
       THEN [h EXCEPT !.img.display = "none",
                      !.results = @ \cup {Result(h, targetTime, "threw")}]
       ELSE [h EXCEPT !.img = [display |-> "block", src |-> h.pv.currentTime],
                      !.results = @ \cup {Result(h, targetTime, "rendered")}]

\* onSeeked that renders whatever the element shows
onSeekedUnguarded(h, targetTime, throws) == CaptureFrame(h, targetTime, throws)

\* const onSeeked = () => { ... } of runHoverPreview, with the targetTime it
\* captured
onSeekedPreview(h, targetTime, throws) ==
  IF Abs(h.pv.currentTime - targetTime) > HoverTolerance
  THEN [h EXCEPT !.results = @ \cup {Result(h, targetTime, "discarded")}]
  ELSE CaptureFrame(h, targetTime, throws)

\* The seek-completion event on previewVideo: every listener registered
\* when it is dispatched runs once, in registration order.
RECURSIVE DispatchPreviewSeeked(_, _, _)
DispatchPreviewSeeked(h, snapshot, throws) ==
  IF snapshot = << >>
  THEN h
  ELSE DispatchPreviewSeeked(onSeekedPreview(h, Head(snapshot), throws),
                             Tail(snapshot), throws)

\* l.325 removes a function that was never registered, l.326 registers
\* it, l.327 assigns previewVideo.currentTime: a seek when the metadata is
\* there, the default playback start position otherwise.
runHoverPreview(st, s) ==
  IF st.hover[s].hoverTargetTime = Null \/ st.video.duration = 0
  THEN [st EXCEPT !.hover[s].hoverScheduled = FALSE]
  ELSE [st EXCEPT !.hover[s] =
          [@ EXCEPT !.hoverScheduled = FALSE,
                    !.hoverTargetTime = Null,
                    !.seeked = Append(@, st.hover[s].hoverTargetTime),
                    !.pv.currentTime = st.hover[s].hoverTargetTime,
                    !.pv.seeking = @ \/ st.hover[s].pv.ready]]

scheduleHoverPreview(h) ==
  IF ~h.hoverScheduled
  THEN [h EXCEPT !.hoverScheduled = TRUE, !.timers = @ + 1]
  ELSE h

\* handleMouseMove that keeps the request already pending
handleMouseMoveFirstWins(st, s, percent) ==
  IF st.video.duration = 0
  THEN st
  ELSE [st EXCEPT !.hover[s] =
          scheduleHoverPreview(
            [@ EXCEPT !.box = "block",
                      !.label = (percent * st.video.duration) \div 100,
                      !.hoverTargetTime =
                         IF @ = Null
                         THEN (percent * st.video.duration) \div 100
                         ELSE @])]

handleMouseMove(st, s, percent) ==
  IF st.video.duration = 0
  THEN st
  ELSE [st EXCEPT !.hover[s] =
          scheduleHoverPreview(
            [@ EXCEPT !.box = "block",
                      !.label = (percent * st.video.duration) \div 100,
                      !.hoverTargetTime = (percent * st.video.duration) \div 100])]

\* timelineBar.addEventListener("mouseleave", () => { ... })
onMouseLeave(h) == [h EXCEPT !.box = "none", !.hoverTargetTime = Null]

\* -------------------------------------------------------------- machine
\* ---------------------------------------------------------------- page
\* !!s for a string, null or undefined
Truthy(s) == s \notin {Absent, ""}

\* x || d for x a number or undefined
OrElse(x, d) == IF x.kind = "number" /\ x.n # 0 THEN x.n ELSE d

\* Math.round(x * 1000); Math.round(y) is floor((floor(2y) + 1) / 2)
MsOf(x) == (Floor(Multiply(Multiply(x, 1000), 2)) + 1) \div 2

\* TimeMs that gives the time the frame ends at
TimeMsOfEnd(frame, fps) == MsOf(SecondsOf(Abs(frame) + 1, Abs(fps)))

\* Math.round((frame / fps) * 1000), for frame and fps of the same sign
TimeMs(frame, fps) == MsOf(SecondsOf(Abs(frame), Abs(fps)))

\* The card createResultCard builds for an item in a search mode, with the
\* data attributes as the click handlers of setupCardHandlers parse them:
\* videoId is String(item.video_id), fps is parseFloat(item.fps || 25) || 25,
\* timeMs is parseInt of the data-time-ms the mode's formula gave, btn the
\* card's submit button.
createResultCard(item, mode) ==
  [ videoId |-> IF item.video_id = Absent THEN "undefined" ELSE item.video_id,
    start |-> item.start_seconds,
    fps |-> OrElse(item.fps, 25),
    keyframeIndex |-> item.keyframe_index,
    timeMs |-> IF mode = "transcript"
               THEN [kind |-> "number", n |-> MsOf(SecondsOf(item.start_seconds, 100))]
               ELSE IF item.frame_number.kind = "text"
               THEN [kind |-> "NaN", n |-> 0]
               ELSE [kind |-> "number",
                     n |-> TimeMs(OrElse(item.frame_number, item.keyframe_index),
                                  OrElse(item.fps, 25))],
    btn |-> [disabled |-> FALSE, text |-> "Submit"] ]

\* A request the page a sends, or a timer it sets; node: the card whose
\* button the continuation writes to, 0 when that card is not in the
\* document; sess: the openModal closure whose handler awaits it, 0 when
\* none does; mode: the search mode the search data was built for; body:
\* what a request to the submit endpoint carries.
Request(a, kind, node, videoId, timeMs) ==
  [ id |-> CHOOSE n \in 1..(Cardinality(a.pending) + 1) :
             \A r \in a.pending : r.id # n,
    kind |-> kind, node |-> node, sess |-> 0, mode |-> a.mode,
    body |-> [sessionId |-> a.storage.sessionId,
              evaluationId |-> a.storage.evaluationId,
              videoId |-> videoId, timeMs |-> timeMs] ]

\* container.innerHTML = ...: the cards that were in the container are out
\* of the document.
Render(a, container, cards) ==
  [a EXCEPT !.container = container, !.cards = cards,
            !.pending = { [r EXCEPT !.node = 0] : r \in @ }]

\* What a handler of the page did: the alert it showed, the requests it
\* sent to the submit endpoint, the error it caught, and what it got from
\* the user or the server (input).
Did(st, op, alert, sent, error, input) ==
  [st EXCEPT !.app.last = [op |-> op, alert |-> alert, sent |-> sent,
                           error |-> error, input |-> input,
                           tick |-> 1 - st.app.last.tick]]

\* checkLoginStatus that takes one credential for a connection
checkLoginStatusEither(st) ==
  IF Truthy(st.app.storage.sessionId) \/ Truthy(st.app.storage.evaluationId)
  THEN [st EXCEPT !.app.session = [sessionId |-> st.app.storage.sessionId,
                                   evaluationId |-> st.app.storage.evaluationId,
                                   connected |-> TRUE],
                  !.app.loggedIn = TRUE,
                  !.app.loginBtn.text = "Connected"]
  ELSE [st EXCEPT !.app.session = [sessionId |-> Absent, evaluationId |-> Absent,
                                   connected |-> FALSE],
                  !.app.loggedIn = FALSE,
                  !.app.loginBtn.text = "Connect"]

\* checkLoginStatus with the setSession calls it makes
checkLoginStatus(st) ==
  IF Truthy(st.app.storage.sessionId) /\ Truthy(st.app.storage.evaluationId)
  THEN [st EXCEPT !.app.session = [sessionId |-> st.app.storage.sessionId,
                                   evaluationId |-> st.app.storage.evaluationId,
                                   connected |-> TRUE],
                  !.app.loggedIn = TRUE,
                  !.app.loginBtn.text = "Connected"]
  ELSE [st EXCEPT !.app.session = [sessionId |-> Absent, evaluationId |-> Absent,
                                   connected |-> FALSE],
                  !.app.loggedIn = FALSE,
                  !.app.loginBtn.text = "Connect"]

\* loginSettled that signs the user out when the login fails
loginSettledClearing(st, r, resp) ==
  IF resp.ok
  THEN Did(checkLoginStatus(
             [st EXCEPT !.app.pending = @ \ {r},
                        !.app.storage = [sessionId |-> resp.sessionId,
                                         evaluationId |-> resp.evaluationId]]),
           "login", "connected", {}, Absent, resp)
  ELSE Did(checkLoginStatus(
             [st EXCEPT !.app.pending = @ \ {r},
                        !.app.storage = [sessionId |-> Absent,
                                         evaluationId |-> Absent],
                        !.app.loginBtn = [text |-> "Connect", disabled |-> FALSE]]),
           "loginFailed", "connection failed", {},
           IF Truthy(resp.error) THEN resp.error ELSE "Login failed", resp)

\* The continuation of the login click handler when loginAPI has settled;
\* resp: the response, ok for a 2xx status, error the message of its body.
loginSettled(st, r, resp) ==
  IF resp.ok
  THEN Did(checkLoginStatus(
             [st EXCEPT !.app.pending = @ \ {r},
                        !.app.storage = [sessionId |-> resp.sessionId,
                                         evaluationId |-> resp.evaluationId]]),
           "login", "connected", {}, Absent, resp)
  ELSE Did([st EXCEPT !.app.pending = @ \ {r},
                      !.app.loginBtn = [text |-> "Connect", disabled |-> FALSE]],
           "loginFailed", "connection failed", {},
           IF Truthy(resp.error) THEN resp.error ELSE "Login failed", resp)

\* results.forEach(item => videoStats.set(id, (videoStats.get(id) || 0) + 1))
RECURSIVE CountVideos(_, _)
CountVideos(results, stats) ==
  IF results = << >>
  THEN stats
  ELSE CountVideos(Tail(results),
                   [v \in DOMAIN stats \cup {Head(results).video_id} |->
                      IF v # Head(results).video_id
                      THEN stats[v]
                      ELSE IF v \in DOMAIN stats THEN stats[v] + 1 ELSE 1])

\* setSearchResults that counts each video once
setSearchResultsCountingOnce(a, results) ==
  [a EXCEPT !.allResults = results,
            !.filteredResults = results,
            !.selectedVideoId = Absent,
            !.videoStats = [v \in DOMAIN CountVideos(results, << >>) |-> 1]]

setSearchResults(a, results) ==
  [a EXCEPT !.allResults = results,
            !.filteredResults = results,
            !.selectedVideoId = Absent,
            !.videoStats = CountVideos(results, << >>)]

\* filterByVideo that keeps the items of the other videos
filterByVideoInverted(a, videoId) ==
  IF videoId \in {Absent, "", "all"}
  THEN [a EXCEPT !.selectedVideoId = Absent, !.filteredResults = a.allResults]
  ELSE [a EXCEPT !.selectedVideoId = videoId,
                 !.filteredResults =
                    SelectSeq(a.allResults,
                              LAMBDA item : item.video_id # videoId)]

filterByVideo(a, videoId) ==
  IF videoId \in {Absent, "", "all"}
  THEN [a EXCEPT !.selectedVideoId = Absent, !.filteredResults = a.allResults]
  ELSE [a EXCEPT !.selectedVideoId = videoId,
                 !.filteredResults =
                    SelectSeq(a.allResults,
                              LAMBDA item : item.video_id = videoId)]

clearState(a) ==
  [a EXCEPT !.allResults = << >>, !.filteredResults = << >>,
            !.selectedVideoId = Absent, !.videoStats = << >>]

\* Where a video id comes in the order of localeCompare, among the ids of
\* SearchResponses
Rank(videoId) ==
  CASE videoId = "" -> 0
    [] videoId = "v1" -> 1
    [] videoId = "v2" -> 2
    [] videoId = "v3" -> 3

\* The entries of videoStats sorted by video id
RECURSIVE Sorted(_, _)
Sorted(stats, ids) ==
  IF ids = {}
  THEN << >>
  ELSE << [videoId |-> CHOOSE v \in ids : \A w \in ids : Rank(v) <= Rank(w),
           count |-> stats[CHOOSE v \in ids : \A w \in ids : Rank(v) <= Rank(w)]] >>
       \o Sorted(stats,
                 ids \ {CHOOSE v \in ids : \A w \in ids : Rank(v) <= Rank(w)})

getVideoList(a) == Sorted(a.videoStats, DOMAIN a.videoStats)

\* The cards of a list of items
CardsOf(items, mode) ==
  [i \in 1..Len(items) |-> createResultCard(items[i], mode)]

displayResults(st, results) ==
  IF results = << >>
  THEN [st EXCEPT !.app = [Render(@, "empty", << >>) EXCEPT !.toggle = FALSE]]
  ELSE [st EXCEPT
          !.app = [Render(setSearchResults(@, results), "cards",
                          CardsOf(results, st.app.mode))
                     EXCEPT !.toggle = TRUE]]

\* The continuation of the search submit handler when the fetch of
\* searchAPI has settled: on a failure searchAPI writes the error message
\* and returns [], and the handler displays what searchAPI returned.
searchSettled(st, r, resp) ==
  IF resp.ok
  THEN Did(displayResults([st EXCEPT !.app.pending = @ \ {r}], resp.results),
           "search", "none", {}, Absent, resp)
  ELSE Did(displayResults(
             [st EXCEPT !.app = Render([@ EXCEPT !.pending = @ \ {r}],
                                       "error", << >>)],
             << >>),
           "searchFailed", "none", {}, resp.error, resp)

\* submitClick that sends the request whatever local storage holds
submitClickUnchecked(st, k, confirmed) ==
  IF st.currentOpenVideoId \in {NoVideo, ""}
  THEN Did(st, "modalSubmit", "none", {}, Absent, confirmed)
  ELSE IF ~confirmed
  THEN Did(pause([st EXCEPT !.effects = NoEffects]),
           "modalSubmit", "none", {}, Absent, confirmed)
  ELSE Did([pause([st EXCEPT !.effects = NoEffects])
              EXCEPT !.app.submitBtn = [disabled |-> TRUE, text |-> "Submitting..."],
                     !.app.pending =
                        @ \cup {[Request(st.app, "modalSubmit", 0,
                                         st.currentOpenVideoId,
                                         TimeMs(FrameOf(st.video.currentTime, k.fps),
                                                k.fps))
                                   EXCEPT !.sess = k.id]}],
           "modalSubmit", "none",
           {Request(st.app, "modalSubmit", 0, st.currentOpenVideoId,
                    TimeMs(FrameOf(st.video.currentTime, k.fps), k.fps)).body},
           Absent, confirmed)

\* submitBtn.onclick of the openModal closure k, up to its await;
\* confirmed: what window.confirm returns
submitClick(st, k, confirmed) ==
  IF st.currentOpenVideoId \in {NoVideo, ""}
  THEN Did(st, "modalSubmit", "none", {}, Absent, confirmed)
  ELSE IF ~confirmed
  THEN Did(pause([st EXCEPT !.effects = NoEffects]),
           "modalSubmit", "none", {}, Absent, confirmed)
  ELSE IF ~(Truthy(st.app.storage.sessionId) /\ Truthy(st.app.storage.evaluationId))
  THEN Did(pause([st EXCEPT !.effects = NoEffects]),
           "modalSubmit", "connect first", {}, Absent, confirmed)
  ELSE Did([pause([st EXCEPT !.effects = NoEffects])
              EXCEPT !.app.submitBtn = [disabled |-> TRUE, text |-> "Submitting..."],
                     !.app.pending =
                        @ \cup {[Request(st.app, "modalSubmit", 0,
                                         st.currentOpenVideoId,
                                         TimeMs(FrameOf(st.video.currentTime, k.fps),
                                                k.fps))
                                   EXCEPT !.sess = k.id]}],
           "modalSubmit", "none",
           {Request(st.app, "modalSubmit", 0, st.currentOpenVideoId,
                    TimeMs(FrameOf(st.video.currentTime, k.fps), k.fps)).body},
           Absent, confirmed)

\* submitSettled whose finally block leaves the control as it is
submitSettledStaysDisabled(st, r, ok) ==
  IF ok
  THEN Did(closeModal([st EXCEPT !.app.pending = @ \ {r}]),
           "modalSubmitted", "submitted", {}, Absent, ok)
  ELSE Did([st EXCEPT !.app.pending = @ \ {r}],
           "modalSubmitFailed", "submit failed", {}, "Submit failed", ok)

\* The continuation of submitBtn.onclick when submitResultAPI has settled
submitSettled(st, r, ok) ==
  IF ok
  THEN Did(closeModal([st EXCEPT !.app.pending = @ \ {r}]),
           "modalSubmitted", "submitted", {}, Absent, ok)
  ELSE Did([st EXCEPT !.app.pending = @ \ {r},
                      !.app.submitBtn =
                         IF st.hidden
                         THEN @
                         ELSE [disabled |-> FALSE, text |-> "Submit Frame"]],
           "modalSubmitFailed", "submit failed", {}, "Submit failed", ok)

\* The click handler of the submit button of card i, up to its await
cardSubmitClick(st, i) ==
  IF st.app.cards[i].videoId = "" \/ st.app.cards[i].timeMs.kind = "NaN"
  THEN Did(st, "cardSubmit", "invalid submit data", {}, Absent, i)
  ELSE IF ~(Truthy(st.app.storage.sessionId) /\ Truthy(st.app.storage.evaluationId))
  THEN Did(st, "cardSubmit", "login first", {}, Absent, i)
  ELSE Did([st EXCEPT !.app.cards[i].btn = [disabled |-> TRUE, text |-> "Submitting..."],
                      !.app.pending =
                         @ \cup {Request(st.app, "cardSubmit", i,
                                         st.app.cards[i].videoId,
                                         st.app.cards[i].timeMs.n)}],
           "cardSubmit", "none",
           {Request(st.app, "cardSubmit", i, st.app.cards[i].videoId,
                    st.app.cards[i].timeMs.n).body},
           Absent, i)

\* cardSubmitSettled that signs the user out when the submit fails
cardSubmitSettledSigningOut(st, r, ok) ==
  IF ok
  THEN Did([st EXCEPT !.app.pending = (@ \ {r}) \cup {[r EXCEPT !.kind = "cardTimer"]},
                      !.app.cards = IF r.node = 0
                                    THEN @
                                    ELSE [@ EXCEPT ![r.node].btn.text = "Submitted"]],
           "cardSubmitted", "none", {}, Absent, ok)
  ELSE Did([st EXCEPT !.app.pending = @ \ {r},
                      !.app.storage = [sessionId |-> Absent,
                                       evaluationId |-> Absent],
                      !.app.cards = IF r.node = 0
                                    THEN @
                                    ELSE [@ EXCEPT ![r.node].btn =
                                            [disabled |-> FALSE, text |-> "Submit"]]],
           "cardSubmitFailed", "submit failed", {}, "Submit failed", ok)

\* The continuation of a card's submit handler when submitResultAPI has
\* settled; a success sets the timer that enables the button again.
cardSubmitSettled(st, r, ok) ==
  IF ok
  THEN Did([st EXCEPT !.app.pending = (@ \ {r}) \cup {[r EXCEPT !.kind = "cardTimer"]},
                      !.app.cards = IF r.node = 0
                                    THEN @
                                    ELSE [@ EXCEPT ![r.node].btn.text = "Submitted"]],
           "cardSubmitted", "none", {}, Absent, ok)
  ELSE Did([st EXCEPT !.app.pending = @ \ {r},
                      !.app.cards = IF r.node = 0
                                    THEN @
                                    ELSE [@ EXCEPT ![r.node].btn =
                                            [disabled |-> FALSE, text |-> "Submit"]]],
           "cardSubmitFailed", "submit failed", {}, "Submit failed", ok)

\* What the browser decides during a step: whether an assignment of
\* currentTime throws, how far the reported position then is from the
\* assigned one, and whether play() is allowed.
Envs == { e \in [throws : BOOLEAN, off : SeekOffsets, playOk : BOOLEAN] :
            e.throws => e.off = 0 }
\* for the events none of whose listeners calls play()
SeekEnvs == { e \in Envs : e.playOk }
\* for the events none of whose listeners assigns currentTime
PlayEnvs == { e \in Envs : ~e.throws /\ e.off = 0 }
UserEnv == [throws |-> FALSE, off |-> 0, playOk |-> TRUE]
Keys == {"Escape"}
Percents == {100}

\* Hls.isSupported() and canPlayType("application/vnd.apple.mpegurl")
Runtimes == [hlsSupported : BOOLEAN, nativeHls : BOOLEAN]

\* A browser with Media Source Extensions and no native manifest playback.
DefaultRuntime == [hlsSupported |-> TRUE, nativeHls |-> FALSE]

InitIn(rts) ==
  /\ hidden = TRUE
  /\ handlersAttached = FALSE
  /\ cleanupHandlers = NoHandlers
  /\ currentOpenVideoId = NoVideo
  /\ video = EmptyVideo
  /\ pendingTimeupdate = FALSE
  /\ listeners = NoListeners
  /\ keydown = << >>
  /\ dom = [timeline |-> {}, infobar |-> {}, preview |-> {}]
  /\ nSessions = 0
  /\ nControllers = 0
  /\ hls = << >>
  /\ decoders = << >>
  /\ panel = [videoId |-> NoVideo, frame |-> 0, time |-> <<0, 0>>, fps |-> 0, writer |-> 0]
  /\ runtime \in rts
  /\ teardowns = 0
  /\ hover = << >>
  /\ conversion = NoConversion
  /\ app = NewApp
  /\ effects = NoEffects

Init == InitIn({DefaultRuntime})

\* a click on a result card's thumbnail
OpenModalOf(cards) ==
  /\ nSessions < MaxSessions
  /\ \E card \in cards : Apply(openModal(State(UserEnv), card))

OpenModal == OpenModalOf(Cards)

\* a click on the close button or on the overlay
CloseModal == Apply(closeModal(State(UserEnv)))

KeyPress ==
  \E key \in Keys : Apply(DispatchKey(State(UserEnv), keydown, key))

TimelineClick ==
  \E n \in dom.timeline, percent \in Percents :
    Apply(handleTimelineClick(State(UserEnv), HandleOf(n.sess), percent))

\* the resource's metadata arrives
LoadedMetadataIn(envs) ==
  /\ video.binding # "none"
  /\ video.readyState = 0
  /\ MediaFrame
  /\ \E env \in envs, d \in Durations :
       ApplyMedia(Dispatch([State(env) EXCEPT !.video.readyState = 1,
                                              !.video.duration = d,
                                              !.video.currentTime = Min(@, d)],
                           "loadedmetadata"))

LoadedMetadata == LoadedMetadataIn(Envs)

\* the element can resume playback
CanPlay ==
  /\ video.binding # "none"
  /\ video.readyState >= 1
  /\ listeners["canplay"] # << >>
  /\ MediaFrame
  /\ \E env \in Envs : ApplyMedia(Dispatch(State(env), "canplay"))

\* a seek of the primary element completes
Seeked ==
  /\ video.readyState >= 1
  /\ video.seeking
  /\ MediaFrame
  /\ \E env \in PlayEnvs :
       ApplyMedia(Dispatch([State(env) EXCEPT !.video.seeking = FALSE], "seeked"))

\* the playback position is reported; it advances while playing
TimeUpdate ==
  /\ \/ video.binding # "none" /\ video.readyState >= 1
     \/ pendingTimeupdate
  /\ MediaFrame
  /\ \E env \in SeekEnvs, adv \in TickSteps :
       /\ adv # 0 => (~video.paused /\ ~video.seeking /\ video.readyState >= 1)
       /\ ApplyMedia(Dispatch([State(env) EXCEPT
                                 !.pendingTimeupdate = FALSE,
                                 !.video.currentTime = Min(@ + adv, Max(@, video.duration))],
                              "timeupdate"))

Next ==
  \/ OpenModal
  \/ CloseModal
  \/ KeyPress
  \/ TimelineClick
  \/ LoadedMetadata
  \/ CanPlay
  \/ Seeked
  \/ TimeUpdate

Spec == Init /\ [][Next]_vars

\* The source resolver in every runtime: the steps that bind or release a
\* source, and the arrival of the bound resource's metadata.
InitResolver == InitIn(Runtimes)

NextResolver ==
  \/ OpenModal
  \/ CloseModal
  \/ LoadedMetadata
  \/ Seeked

SpecResolver == InitResolver /\ [][NextResolver]_vars


\* ------------------------------------------------ the hover preview engine
\* Where on a timeline the pointer can be, in percent of its width.
HoverPercents == {0, 100}

\* Difference between the position previewVideo reports when a seek has
\* completed and the position that was assigned.
PreviewOffsets == {0, 60}

\* the pointer moves over a timeline bar of the document
MouseMove ==
  \E n \in dom.timeline, percent \in HoverPercents :
    Apply([State(UserEnv) EXCEPT
             !.hover =
                [handleMouseMove(State(UserEnv), n.sess, percent).hover
                   EXCEPT ![n.sess].pointer = (percent * video.duration) \div 100,
                          ![n.sess].overwritten =
                             \/ @
                             \/ hover[n.sess].hoverTargetTime
                                  \notin {Null, (percent * video.duration) \div 100},
                          ![n.sess].last = Idle]])

\* the pointer leaves a timeline bar it was over
MouseLeave ==
  \E n \in dom.timeline :
    /\ hover[n.sess].pointer # Null
    /\ Apply([State(UserEnv) EXCEPT
                !.hover[n.sess] = [onMouseLeave(@) EXCEPT
                                     !.pointer = Null,
                                     !.overwritten =
                                        @ \/ hover[n.sess].hoverTargetTime # Null,
                                     !.last = Idle]])

\* What a timer callback did, from the engine before (h0) and after it (h).
TimerOutcome(h0, h) ==
  [h EXCEPT !.overwritten = FALSE,
            !.last = IF Len(h.seeked) > Len(h0.seeked)
                     THEN [op |-> "seek", time |-> h.seeked[Len(h.seeked)],
                           superseded |-> h0.overwritten]
                     ELSE [op |-> "none", time |-> Null,
                           superseded |-> h0.overwritten]]

\* a timer set by scheduleHoverPreview expires
HoverTimer ==
  \E s \in 1..Len(hover) :
    /\ hover[s].timers > 0
    /\ Len(hover[s].seeked) < MaxPending
    /\ Apply([runHoverPreview([State(UserEnv) EXCEPT !.hover[s].timers = @ - 1], s)
               EXCEPT !.hover[s] = TimerOutcome(hover[s], @)])

\* the metadata of the resource bound to a preview element arrives; dims:
\* the resource has a video track
PreviewLoadedMetadata ==
  \E n \in dom.preview, dims \in BOOLEAN :
    /\ n.src # "none"
    /\ ~hover[n.sess].pv.ready
    /\ Apply([State(UserEnv) EXCEPT
                !.hover[n.sess].pv =
                   [@ EXCEPT !.ready = TRUE, !.dims = dims,
                             !.seeking = (hover[n.sess].pv.currentTime # 0)]])

\* a seek of a preview element completes
PreviewSeeked ==
  \E s \in 1..Len(hover), off \in PreviewOffsets, throws \in BOOLEAN :
    /\ hover[s].pv.ready
    /\ hover[s].pv.seeking
    /\ Apply([State(UserEnv) EXCEPT
                !.hover[s] = DispatchPreviewSeeked(
                               [@ EXCEPT !.pv.seeking = FALSE,
                                         !.pv.currentTime = Max(0, @ - off),
                                         !.seeked = << >>,
                                         !.results = {}],
                               @.seeked, throws)])

\* the metadata of the primary element's resource arrives, in a browser
\* that seeks exactly and allows play()
MainLoadedMetadata == LoadedMetadataIn({UserEnv})

\* a click on the thumbnail of the first result card
OpenFirstCard == OpenModalOf({ c \in Cards : c.videoId = "v1" })

NextHover ==
  \/ OpenFirstCard
  \/ CloseModal
  \/ MainLoadedMetadata
  \/ PreviewLoadedMetadata
  \/ MouseMove
  \/ MouseLeave
  \/ HoverTimer
  \/ PreviewSeeked

SpecHover == Init /\ [][NextHover]_vars


\* ------------------------------------------------------------ frame steps
\* an arrow key is pressed
StepKey ==
  /\ video.duration # 0 \/ video.currentTime < MaxPosition
  /\ \E key \in {"ArrowLeft", "ArrowRight"} : Apply(DispatchKey(State(UserEnv), keydown, key))

\* a click on the previous-frame or next-frame button of the open modal;
\* their onclick is the handler of the latest openModal call
StepButton ==
  /\ ~hidden
  /\ video.duration # 0 \/ video.currentTime < MaxPosition
  /\ \E direction \in {-1, 1} :
       Apply(handleFrameStep(State(UserEnv), CHOOSE k \in {keydown[i] : i \in 1..Len(keydown)} : k.id = nSessions, direction))

NextStep ==
  \/ OpenFirstCard
  \/ CloseModal
  \/ MainLoadedMetadata
  \/ Seeked
  \/ StepKey
  \/ StepButton

SpecStep == Init /\ [][NextStep]_vars


\* ------------------------------------------------- time/frame conversion
\* Frame rates of the videos, and frames up to MaxFrame.
FrameRates == {24, 25, 30}

\* the player is on a frame of a video
PickFrame ==
  /\ conversion.stage = "none"
  /\ \E frame \in 0..MaxFrame, fps \in FrameRates :
       Apply([State(UserEnv) EXCEPT
                !.conversion = [NoConversion EXCEPT !.stage = "frame",
                                                    !.frame = frame,
                                                    !.fps = fps]])

\* the submit handler converts the frame to seconds
ToSeconds ==
  /\ conversion.stage = "frame"
  /\ Apply([State(UserEnv) EXCEPT
              !.conversion.stage = "seconds",
              !.conversion.seconds = SecondsOf(conversion.frame, conversion.fps)])

\* the frame counter converts the seconds to a frame
ToFrame ==
  /\ conversion.stage = "seconds"
  /\ Apply([State(UserEnv) EXCEPT
              !.conversion.stage = "back",
              !.conversion.back =
                 FrameOfSeconds(conversion.seconds, conversion.fps)])

NextFrames == PickFrame \/ ToSeconds \/ ToFrame

SpecFrames == Init /\ [][NextFrames]_vars

\* ------------------------------------------- segmented streaming
\* setupHlsPlayback is defined but verifyAndInitializePlayback does not
\* call it.  SpecStreaming is the modal with l.292 calling
\* setupHlsPlayback, and the events of the streaming decoder it then
\* creates.
\* the decoders that were not destroyed
Live == { d \in 1..Len(decoders) : decoders[d].destroyed = 0 }

OpenModalStreaming ==
  /\ nSessions < MaxSessions
  /\ \E card \in Cards : Apply(openModalStreaming(State(UserEnv), card))

\* the manifest of a live primary decoder was parsed
ManifestParsed ==
  \E d \in Live :
    /\ decoders[d].role = "main"
    /\ ~decoders[d].parsed
    /\ Apply(onManifestParsed([State(UserEnv) EXCEPT !.effects = NoEffects], d))

\* a live primary decoder reports an error; the entry of effects says
\* which
HlsError ==
  \E d \in Live,
     data \in [ fatal : BOOLEAN,
                type : {"networkError", "mediaError", "otherError"},
                details : {"manifestLoadError", "other"} ] :
    /\ decoders[d].role = "main"
    /\ decoders[d].restarts < MaxErrors
    /\ data.details = "manifestLoadError" => data.type = "networkError"
    /\ Apply(onError([State(UserEnv) EXCEPT
                        !.effects =
                           {Effect(State(UserEnv),
                                   IF ~data.fatal THEN "nonFatalError"
                                   ELSE IF data.details = "manifestLoadError"
                                        THEN "manifestLoadError"
                                        ELSE data.type,
                                   0, decoders[d].k, "hls")}],
                     decoders[d].k, data))

NextStreaming ==
  \/ OpenModalStreaming
  \/ CloseModal
  \/ ManifestParsed
  \/ HlsError
  \/ LoadedMetadata

SpecStreaming == Init /\ [][NextStreaming]_vars

\* ------------------------------------------------------- page, actions
\* What the search endpoint answers: no results, results with and without
\* a video identifier, a frame rate and a frame number, or an error.
SearchResponses ==
  [ ok : {TRUE}, error : {Absent},
    results :
      { << >>,
        << [video_id |-> "v1", fps |-> [kind |-> "number", n |-> 25],
            frame_number |-> [kind |-> "number", n |-> 11],
            keyframe_index |-> 11, start_seconds |-> 45],
           [video_id |-> "", fps |-> [kind |-> "number", n |-> -5],
            frame_number |-> [kind |-> "text", n |-> 0],
            keyframe_index |-> 0, start_seconds |-> 0] >>,
        << [video_id |-> "v3", fps |-> [kind |-> "absent", n |-> 0],
            frame_number |-> [kind |-> "absent", n |-> 0],
            keyframe_index |-> 0, start_seconds |-> 0],
           [video_id |-> "v2", fps |-> [kind |-> "number", n |-> 0],
            frame_number |-> [kind |-> "number", n |-> 2],
            keyframe_index |-> 2, start_seconds |-> 8],
           [video_id |-> "v3", fps |-> [kind |-> "number", n |-> 30],
            frame_number |-> [kind |-> "number", n |-> 3],
            keyframe_index |-> 3, start_seconds |-> 10] >> } ]
  \cup [ok : {FALSE}, error : {"HTTP error"}, results : {<< >>}]

\* the document has loaded: the script starts over, local storage is what
\* it was
PageLoad ==
  Apply(Did(checkLoginStatus(
              [State(UserEnv) EXCEPT
                 !.hidden = TRUE, !.handlersAttached = FALSE,
                 !.cleanupHandlers = NoHandlers,
                 !.currentOpenVideoId = NoVideo, !.video = EmptyVideo,
                 !.pendingTimeupdate = FALSE, !.listeners = NoListeners,
                 !.keydown = << >>,
                 !.dom = [timeline |-> {}, infobar |-> {}, preview |-> {}],
                 !.nSessions = 0, !.nControllers = 0, !.hls = << >>,
                 !.decoders = << >>,
                 !.panel = [videoId |-> NoVideo, frame |-> 0, time |-> <<0, 0>>,
                            fps |-> 0, writer |-> 0],
                 !.teardowns = 0, !.hover = << >>,
                 !.app = [NewApp EXCEPT !.storage = app.storage,
                                        !.last.tick = app.last.tick],
                 !.effects = NoEffects]),
            "load", "none", {}, Absent, Absent))

\* a click on the login button
LoginClick ==
  /\ ~app.loginBtn.disabled
  /\ Cardinality(app.pending) < MaxRequests
  /\ Apply(Did([State(UserEnv) EXCEPT
                  !.app.loginBtn = [text |-> "Connecting...", disabled |-> TRUE],
                  !.app.pending = @ \cup {Request(app, "login", 0, Absent, 0)}],
               "loginClick", "none", {}, Absent, Absent))

\* the login endpoint has answered
LoginSettled ==
  \E r \in app.pending,
     resp \in [ok : {TRUE}, sessionId : {"sid", ""}, evaluationId : {"eid"},
               error : {Absent}]
              \cup [ok : {FALSE}, sessionId : {Absent}, evaluationId : {Absent},
                    error : {"bad credentials", Absent}] :
    /\ r.kind = "login"
    /\ Apply(loginSettled(State(UserEnv), r, resp))

\* a click on the status panel, which shows while the page is connected;
\* confirmed: what confirm returns
Disconnect ==
  /\ app.loggedIn
  /\ \E confirmed \in BOOLEAN :
       Apply(Did(IF confirmed
                 THEN checkLoginStatus(
                        [State(UserEnv) EXCEPT
                           !.app.storage = [sessionId |-> Absent,
                                            evaluationId |-> Absent]])
                 ELSE State(UserEnv),
                 "disconnect", "none", {}, Absent, confirmed))

\* the search form is submitted, which the disabled search button of a
\* search in flight prevents; empty: nothing but blanks in the input
SearchSubmit ==
  /\ \A r \in app.pending : r.kind # "search"
  /\ Cardinality(app.pending) < MaxRequests
  /\ \E empty \in BOOLEAN :
       Apply(IF empty
             THEN Did(State(UserEnv), "searchSubmit", "enter a query", {}, Absent, empty)
             ELSE Did([State(UserEnv) EXCEPT
                         !.app = [Render(@, "loading", << >>) EXCEPT
                                    !.pending = @ \cup {Request(app, "search", 0,
                                                                Absent, 0)}]],
                      "searchSubmit", "none", {}, Absent, empty))

\* the search endpoint has answered, or the fetch was rejected
SearchSettledIn(resps) ==
  \E r \in app.pending, resp \in resps :
    /\ r.kind = "search"
    /\ Apply(searchSettled(State(UserEnv), r, resp))

SearchSettled == SearchSettledIn(SearchResponses)

\* the search endpoint has answered with the results of video v1
SearchFound ==
  SearchSettledIn({ resp \in SearchResponses :
                      /\ resp.results # << >>
                      /\ resp.results[1].video_id = "v1" })

\* a click on the tab of a search mode
TabClick ==
  \E mode \in {"visual", "transcript"} :
    Apply(Did([State(UserEnv) EXCEPT
                 !.app = [Render(clearState(@), "blank", << >>) EXCEPT
                            !.mode = mode, !.toggle = FALSE]],
              "tabClick", "none", {}, Absent, mode))

\* a click on an entry of the video filter: "all" or a video of the list
FilterChange ==
  /\ app.toggle
  /\ \E videoId \in {"all"} \cup DOMAIN app.videoStats :
       Apply(Did([State(UserEnv) EXCEPT
                    !.app = Render(filterByVideo(@, videoId), app.container,
                                   CardsOf(filterByVideo(app, videoId).filteredResults,
                                           app.mode))],
                 "filterChange", "none", {}, Absent, videoId))

\* a click on the thumbnail of a result card
OpenCard == \E i \in DOMAIN app.cards : OpenModalOf({app.cards[i]})

\* a click on the submit control of the modal
ModalSubmit ==
  /\ ~hidden
  /\ ~app.submitBtn.disabled
  /\ Cardinality(app.pending) < MaxRequests
  /\ \E confirmed \in BOOLEAN :
       Apply(submitClick(State(UserEnv),
                         CHOOSE k \in {keydown[i] : i \in 1..Len(keydown)} :
                           k.id = nSessions,
                         confirmed))

\* the submit endpoint has answered a request of the modal
ModalSubmitSettled ==
  \E r \in app.pending, ok \in BOOLEAN :
    /\ r.kind = "modalSubmit"
    /\ Apply(submitSettled(State(UserEnv), r, ok))

\* a click on the submit button of a result card
CardSubmit ==
  /\ Cardinality(app.pending) < MaxRequests
  /\ \E i \in DOMAIN app.cards :
       /\ ~app.cards[i].btn.disabled
       /\ Apply(cardSubmitClick(State(UserEnv), i))

\* the submit endpoint has answered a request of a card
CardSubmitSettled ==
  \E r \in app.pending, ok \in BOOLEAN :
    /\ r.kind = "cardSubmit"
    /\ Apply(cardSubmitSettled(State(UserEnv), r, ok))

\* the timer a card set after a successful submit expires
CardTimer ==
  \E r \in app.pending :
    /\ r.kind = "cardTimer"
    /\ Apply(Did([State(UserEnv) EXCEPT
                    !.app.pending = @ \ {r},
                    !.app.cards = IF r.node = 0
                                  THEN @
                                  ELSE [@ EXCEPT ![r.node].btn =
                                          [disabled |-> FALSE, text |-> "Submit"]]],
                 "cardTimer", "none", {}, Absent, Absent))

\* The page without the modal.
SpecPage ==
  Init /\ [][\/ PageLoad
             \/ LoginClick
             \/ LoginSettled
             \/ Disconnect
             \/ SearchSubmit
             \/ SearchSettled
             \/ TabClick
             \/ FilterChange
             \/ CardSubmit
             \/ CardSubmitSettled
             \/ CardTimer]_vars

\* The page with the modal, on the results of one video.
SpecApp ==
  Init /\ [][\/ LoginClick
             \/ LoginSettled
             \/ Disconnect
             \/ SearchSubmit
             \/ SearchFound
             \/ OpenCard
             \/ CloseModal
             \/ StepButton
             \/ ModalSubmit
             \/ ModalSubmitSettled
             \/ CardSubmit
             \/ CardSubmitSettled]_vars

\* Every operation of the page that can run between a login and a
\* disconnect, on the results of one video.
SpecStorage ==
  Init /\ [][\/ LoginClick
             \/ LoginSettled
             \/ Disconnect
             \/ SearchSubmit
             \/ SearchFound
             \/ TabClick
             \/ FilterChange
             \/ OpenCard
             \/ CloseModal
             \/ StepButton
             \/ ModalSubmit
             \/ ModalSubmitSettled
             \/ CardSubmit
             \/ CardSubmitSettled]_vars

\* The modal and its submit control, opened from the cards of the player
\* model.
SpecSubmit ==
  Init /\ [][\/ LoginClick
             \/ LoginSettled
             \/ OpenFirstCard
             \/ CloseModal
             \/ MainLoadedMetadata
             \/ StepButton
             \/ ModalSubmit
             \/ ModalSubmitSettled]_vars

\* =================================================================
\* Properties
\* =================================================================
Active == IF hidden THEN 0 ELSE nSessions

ListenerSet ==
  UNION { { listeners[ev][i] : i \in 1..Len(listeners[ev]) } : ev \in EventTypes }
KeydownSet == { keydown[i] : i \in 1..Len(keydown) }

FrameSyncFns == {"updateProgress", "updateFrameInfo"}
ControllerFns == {"enforceTargetDuringPlayback", "onReady", "onSeeked", "canplayRetry"}

\* how many listeners of function fn are registered for event ev
Registered(ev, fn) ==
  Cardinality({ i \in 1..Len(listeners[ev]) : listeners[ev][i].fn = fn })

\* C1: at most one session is open.  At most one keydown handler, timeline
\* bar, info bar, preview video element and set of frame-sync listeners
\* exist, all of them of the session opened last and none when the modal is
\* closed; every session but the open one has been through closeModal's
\* teardown.
C1_AtMostOneSession ==
  /\ Len(keydown) <= 1
  /\ Cardinality(dom.timeline) <= 1
  /\ Cardinality(dom.infobar) <= 1
  /\ Cardinality(dom.preview) <= 1
  /\ Registered("timeupdate", "updateProgress") <= 1
  /\ Registered("timeupdate", "updateFrameInfo") <= 1
  /\ Registered("loadedmetadata", "updateFrameInfo") <= 1
  /\ \A f \in KeydownSet : f.id = Active
  /\ \A n \in dom.timeline \cup dom.infobar \cup dom.preview : n.sess = Active
  /\ \A l \in ListenerSet : l.fn \in FrameSyncFns => l.k.id = Active
  /\ teardowns = nSessions - (IF hidden THEN 0 ELSE 1)

\* C1 witness: a second session is open after the first one was torn down.
C1_Witness ==
  /\ ~hidden
  /\ nSessions = 2
  /\ teardowns = 1
  /\ Len(keydown) = 1
  /\ Cardinality(dom.timeline) = 1
  /\ Registered("timeupdate", "updateFrameInfo") = 1

MutationOps == {"setpos", "pause", "play", "reseek"}

\* C2: a callback of the seek controller of a session that was closed or
\* superseded does not set the position of, pause or start the primary
\* element: whatever a controller callback does to the element, it does as
\* a callback of the session that is open.
C2_StaleCallbacksInert ==
  \A e \in effects : e.op \in MutationOps => e.active

\* C3: closeModal detaches every listener the session registered: right
\* after it returns no listener is left on the document or on the primary
\* element, so every registered listener is one of the open session.
C3_CloseDetachesAll ==
  /\ \A l \in ListenerSet : l.k.id = Active
  /\ \A f \in KeydownSet : f.id = Active

\* The modal as it is before the first openModal.
NeverOpened ==
  /\ hidden
  /\ currentOpenVideoId = NoVideo
  /\ cleanupHandlers = NoHandlers
  /\ ~handlersAttached
  /\ dom = [timeline |-> {}, infobar |-> {}, preview |-> {}]
  /\ video.binding = "none"
  /\ \A d \in 1..Len(decoders) : decoders[d].destroyed >= 1
  /\ listeners = NoListeners
  /\ keydown = << >>

\* C4: after closeModal the modal is in the never-opened state (overlay
\* hidden, no current video, no stored handles, no timeline bar, info bar
\* or preview element, no source, no live decoder), so that the next
\* openModal finds nothing of the previous session.
C4_CloseLeavesNeverOpened == hidden => NeverOpened

\* C5: closeModal on a closed modal changes nothing: no step that is a
\* closeModal call from a closed modal changes the state.
C5_CloseIdempotent == [][(hidden /\ CloseModal) => UNCHANGED vars]_vars

\* C5 witness: the modal is closed again after a session, the state from
\* which a second closeModal is called.
C5_Witness ==
  /\ hidden
  /\ teardowns >= 1
  /\ nSessions >= 1
  /\ ENABLED CloseModal

\* C6: no event invokes the frame-sync or progress listeners of a session
\* that is not the open one; while a session is open the frame display and
\* the shared panel were last written for that session, with its fps.
C6_FrameSyncOfOpenSession ==
  /\ \A e \in effects : e.op \in FrameSyncFns => e.active
  /\ ~hidden =>
       /\ panel.writer = nSessions
       /\ \A l \in ListenerSet :
            l.fn \in FrameSyncFns => (l.k.id = nSessions /\ l.k.fps = panel.fps)
       /\ \A n \in dom.infobar : n.sess = nSessions /\ n.fps = panel.fps

\* C6 witness: after the second session was opened, with a controller
\* listener of the first one still on the element, an event has run the
\* second session's frame-sync listener.
C6_Witness ==
  /\ ~hidden
  /\ nSessions = 2
  /\ \E l \in ListenerSet : l.k.id = 1
  /\ \E e \in effects : e.op = "updateFrameInfo" /\ e.sess = 2
  /\ panel.writer = 2

\* C7: every enforcement listener has re-sought at most 4 times, a session
\* has one controller, and a re-seek happens only for the open session and
\* with a drift above 0.25s.
C7_BoundedActiveReseeks ==
  /\ \A l \in ListenerSet : l.seekRetries <= MaxSeekRetries
  /\ nControllers = nSessions
  /\ \A e \in effects : e.op = "reseek" => (e.active /\ e.drift)

\* C9: play() is attempted by the controller only with metadata ready,
\* after the position was set and found within 0.05s of the target or a
\* seek completed, and only for the session that is open.
C9_PlayOnlyAfterSeekOfOpenSession ==
  \A e \in effects :
    e.op = "play" =>
      /\ e.ready
      /\ e.via \in {"within", "seeked"}
      /\ e.via = "within" => e.within
      /\ e.active

EnforceAttached(c) ==
  \E l \in ListenerSet : l.fn = "enforceTargetDuringPlayback" /\ l.c = c

\* C8: enforcement terminates.  If time-update events keep being
\* delivered, no enforcement listener stays attached for ever; a
\* detached one is never attached again, and only an attached one
\* re-seeks, so after the detachment the controller re-seeks no more.
C8_EnforcementTerminates ==
  /\ ([]<><<TimeUpdate>>_vars) => (\A c \in 1..MaxSessions : []<>(~EnforceAttached(c)))
  /\ [][\A c \in 1..nControllers : ~EnforceAttached(c) => ~EnforceAttached(c)']_vars
  /\ [](\A e \in effects : e.op = "reseek" => EnforceAttached(e.c))

\* C8 witness: in an open session whose metadata is loaded the enforcement
\* listener is detached and the position is away from the target (the user
\* sought to the end of the timeline).
C8_Witness ==
  /\ ~hidden
  /\ nSessions >= 1
  /\ video.readyState >= 1
  /\ ~EnforceAttached(nControllers)
  /\ \A f \in KeydownSet : Abs(video.currentTime - TargetTime(f)) > DriftTolerance
  /\ video.currentTime = video.duration

PreviewSources == { n.src : n \in dom.preview }

\* C10 (as amended): openModal binds the progressive file to the primary
\* and to the preview element in every runtime, with or without support for
\* segmented streaming, and creates no streaming decoder.
C10_BindsProgressiveFile ==
  /\ ~hidden => (video.binding = "progressive-file" /\ PreviewSources = {"progressive-file"})
  /\ hidden => (video.binding = "none" /\ PreviewSources = {})
  /\ decoders = << >>

\* C10 witness: a session is open in a runtime that supports segmented
\* streaming, its metadata has arrived, and the progressive file is bound.
C10_Witness ==
  /\ ~hidden
  /\ runtime.hlsSupported
  /\ video.readyState >= 1
  /\ video.binding = "progressive-file"
  /\ PreviewSources = {"progressive-file"}

\* C10 (as claimed): whenever the runtime supports segmented streaming the
\* binding of an open session is segmented-stream, and progressive-file is
\* bound only when it does not.
C10_PrefersSegmentedStream ==
  ~hidden =>
    IF runtime.hlsSupported \/ runtime.nativeHls
    THEN video.binding = "segmented-stream" /\ PreviewSources = {"segmented-stream"}
    ELSE video.binding = "progressive-file" /\ PreviewSources = {"progressive-file"}

\* the closure of the open session
OpenClosure == CHOOSE k \in KeydownSet : k.id = nSessions

Hovering == { n.sess : n \in dom.timeline }

\* C14: at every moment at most one hover-decode timer is pending (a
\* pointer-move while one is pending schedules no second one), and the
\* scheduled flag of an engine is true exactly while its timer is pending.
C14_HoverDebounce ==
  /\ \A s, t \in 1..Len(hover) :
       (hover[s].timers > 0 /\ hover[t].timers > 0) => s = t
  /\ \A s \in 1..Len(hover) :
       /\ hover[s].timers <= 1
       /\ hover[s].hoverScheduled <=> (hover[s].timers = 1)

\* C15: a hover timer that seeks the preview element seeks it to the latest
\* hover time (where the pointer is), empties the slot, and a timer that
\* fires after the pointer left the timeline seeks nothing.
C15_LatestWins ==
  \A s \in Hovering :
    /\ hover[s].last.op = "seek" =>
         /\ hover[s].last.time = hover[s].pointer
         /\ hover[s].hoverTargetTime = Null
    /\ (hover[s].last.op # "idle" /\ hover[s].pointer = Null) =>
         hover[s].last.op = "none"

\* The timer sought the latest time after an earlier one was overwritten.
C15_Witness ==
  \E s \in Hovering :
    /\ hover[s].last = [op |-> "seek", time |-> 90, superseded |-> TRUE]
    /\ hover[s].pv.seeking

\* C16: a seek-completion listener of the hover engine renders an image only
\* when the preview element's position is within 0.5s of the time the
\* listener asked for, and what it renders is the frame at that position.
C16_StaleDiscarded ==
  \A s \in 1..Len(hover) : \A r \in hover[s].results :
    r.outcome = "rendered" =>
      /\ Abs(r.actual - r.target) <= HoverTolerance
      /\ hover[s].img = [display |-> "block", src |-> r.actual]

\* A decode for 0 superseded by one for 0.9s: the first is discarded, the
\* second rendered.
C16_Witness ==
  \E s \in Hovering :
    hover[s].results =
      { [target |-> 0, actual |-> 90, outcome |-> "discarded"],
        [target |-> 90, actual |-> 90, outcome |-> "rendered"] }

\* C17: after a seek-completion listener found no frame dimensions or its
\* capture threw, the preview image is hidden.
C17_DegradedHidden ==
  \A s \in 1..Len(hover) : \A r \in hover[s].results :
    r.outcome \in {"nodims", "threw"} => hover[s].img.display = "none"

\* The capture threw after an image had been rendered.
C17_Witness ==
  \E s \in Hovering :
    /\ \E r \in hover[s].results : r.outcome = "threw"
    /\ hover[s].img.src # Null
    /\ hover[s].img.display = "none"

\* ------------------------------------------------------ frame-sync display
\* C18: every time-update or metadata-ready event delivered while a session
\* is open runs that session's updateFrameInfo and leaves its info bar with
\* floor(currentTime * fps), floor(duration * fps) and the fps, and the
\* shared panel with the same frame, the formatted time and the fps.
C18_FrameSyncRepublishes ==
  [][ ((TimeUpdate \/ LoadedMetadata) /\ ~hidden) =>
        /\ \E e \in effects' : e.op = "updateFrameInfo" /\ e.sess = nSessions
        /\ dom'.infobar =
             { InfoBar(nSessions,
                       FrameOf(video'.currentTime, OpenClosure.fps),
                       FrameOf(video'.duration, OpenClosure.fps),
                       OpenClosure.fps) }
        /\ panel'.frame = FrameOf(video'.currentTime, OpenClosure.fps)
        /\ panel'.time = formatTime(video'.currentTime)
        /\ panel'.fps = OpenClosure.fps ]_vars

\* A time-update of the second session has moved its frame display off 0.
C18_Witness ==
  /\ ~hidden
  /\ nSessions = 2
  /\ \E e \in effects : e.op = "updateFrameInfo" /\ e.sess = 2
  /\ panel.frame > 0
  /\ \E n \in dom.infobar : n.frame = panel.frame /\ n.total > n.frame

\* C19: a frame step of the open session leaves playback paused, the
\* position at clamp(position + d/fps, 0, duration), so within
\* [0, duration], and the info bar and the shared panel at
\* floor(position * fps) and the formatted time.
C19_FrameStep ==
  [][ ((StepKey \/ StepButton) /\ ~hidden) =>
        /\ video'.paused
        /\ video'.currentTime \in 0..video'.duration
        /\ \E direction \in {-1, 1} :
             video'.currentTime =
               Max(0, Min(video.currentTime
                            + direction * OneFrameTime(OpenClosure.fps),
                          video.duration))
        /\ \A n \in dom'.infobar :
             n.frame = FrameOf(video'.currentTime, OpenClosure.fps)
        /\ panel'.frame = FrameOf(video'.currentTime, OpenClosure.fps)
        /\ panel'.time = formatTime(video'.currentTime) ]_vars

\* ------------------------------------------------- time/frame conversion
\* C20: a frame converted to seconds (frame / fps) and back
\* (floor(seconds * fps)) is the same frame.
C20_RoundTrip ==
  conversion.stage = "back" => conversion.back = conversion.frame

\* Sessions opened at a start inside and at a start beyond the duration
\* of the video, on an element that reports the position it is assigned.
OpenAtStart ==
  OpenModalOf({ [videoId |-> "v1", start |-> t, fps |-> 25,
                 keyframeIndex |-> FrameOf(t, 25)] : t \in {45, 120} })

SpecStart ==
  Init /\ [][\/ OpenAtStart
             \/ CloseModal
             \/ MainLoadedMetadata
             \/ Seeked
             \/ StepButton]_vars

\* handleFrameStep(1) at the position the conversion is at, the duration
\* known and beyond the new position: currentTime + 1.0 / frameRate, then
\* the frame display
StepForward ==
  /\ conversion.stage = "seconds"
  /\ Apply([State(UserEnv) EXCEPT
              !.conversion.stage = "forward",
              !.conversion.seconds =
                 Sum(conversion.seconds, SecondsOf(1, conversion.fps)),
              !.conversion.back =
                 FrameOfSeconds(Sum(conversion.seconds,
                                    SecondsOf(1, conversion.fps)),
                                conversion.fps)])

\* handleFrameStep(-1) at a position of at least 1 / frameRate
StepBackward ==
  /\ conversion.stage \in {"seconds", "forward"}
  /\ conversion.stage = "seconds" => conversion.frame >= 1
  /\ Apply([State(UserEnv) EXCEPT
              !.conversion.stage = "backward",
              !.conversion.seconds =
                 Difference(conversion.seconds, SecondsOf(1, conversion.fps)),
              !.conversion.back =
                 FrameOfSeconds(Difference(conversion.seconds,
                                           SecondsOf(1, conversion.fps)),
                                conversion.fps)])

\* Frame steps from the start of a frame, in the arithmetic of the
\* program.
SpecExact ==
  Init /\ [][PickFrame \/ ToSeconds \/ StepForward \/ StepBackward]_vars

\* ------------------------------------------------------------ page, claims
\* The closure of the session the modal shows
Shown == CHOOSE k \in {keydown[i] : i \in 1..Len(keydown)} : k.id = nSessions

\* A page handler ran in this step and reports op
Ran(op) == app'.last.tick # app.last.tick /\ app'.last.op = op

Stored == Truthy(app.storage.sessionId) /\ Truthy(app.storage.evaluationId)

\* A submit handler of the modal or of a card ran in this step
Submitting == Ran("modalSubmit") \/ Ran("cardSubmit")

\* The submit handler that ran had a video identifier and a numeric time,
\* and in the modal the user confirmed the submission.
ValidAndConfirmed ==
  IF app'.last.op = "modalSubmit"
  THEN currentOpenVideoId \notin {NoVideo, ""} /\ app'.last.input = TRUE
  ELSE /\ app.cards[app'.last.input].videoId # ""
       /\ app.cards[app'.last.input].timeMs.kind = "number"

\* Every request a submit handler sends carries the two stored credentials,
\* both non-empty, and none is sent while a credential is missing.
SendsStored ==
  /\ \A b \in app'.last.sent :
        /\ Truthy(b.sessionId) /\ Truthy(b.evaluationId)
        /\ b.sessionId = app.storage.sessionId
        /\ b.evaluationId = app.storage.evaluationId
  /\ { r.body : r \in app'.pending \ app.pending } = app'.last.sent
  /\ ~Stored => app'.last.sent = {} /\ app'.pending = app.pending

\* C22 as stated: every request to the submit endpoint carries both stored
\* credentials, non-empty, and whenever a credential is absent the submit
\* action shows the connect prompt and sends no request.
C22_PromptAlways ==
  [][Submitting
       => /\ SendsStored
          /\ ~Stored => app'.last.alert \in {"connect first", "login first"}]_vars

\* C22, amended: every request to the submit endpoint carries both stored
\* credentials, non-empty; whenever a credential is absent the submit
\* action sends no request, and it shows the connect prompt when its data
\* is valid and, in the modal, the user has confirmed the submission.
C22_PromptWhenConfirmed ==
  [][Submitting
       => /\ SendsStored
          /\ ~Stored /\ ValidAndConfirmed
               => app'.last.alert \in {"connect first", "login first"}]_vars

\* The modal's submit handler has shown the connect prompt, nothing stored
\* and nothing in flight
C22_Witness ==
  /\ app.last.op = "modalSubmit"
  /\ app.last.alert = "connect first"
  /\ ~Stored
  /\ app.last.sent = {}
  /\ app.pending = {}
  /\ ~hidden

\* The data of the submit handler that ran is invalid: no video identifier,
\* or a time that is not a number.
InvalidData ==
  IF app'.last.op = "modalSubmit"
  THEN currentOpenVideoId \in {NoVideo, ""}
  ELSE \/ app.cards[app'.last.input].videoId = ""
       \/ app.cards[app'.last.input].timeMs.kind = "NaN"

\* C23: a submit action whose data is invalid sends no request, leaves the
\* submit controls as they were and alerts the user.
C23_InvalidRejected ==
  [][Submitting /\ InvalidData
       => /\ app'.last.sent = {}
          /\ app'.pending = app.pending
          /\ app'.submitBtn = app.submitBtn
          /\ app'.cards = app.cards
          /\ app'.last.alert = "invalid submit data"]_vars

\* C24: when a request of the modal's submit handler completes with a
\* success the modal is closed; with a failure the modal and its session
\* are as they were and, the modal being open, the submit control is
\* enabled with the label "Submit Frame"; either way the control is not
\* left disabled on an open modal.
C24_SubmitSettles ==
  [][/\ Ran("modalSubmitted") => hidden'
     /\ Ran("modalSubmitFailed")
          => /\ UNCHANGED << hidden, currentOpenVideoId, nSessions, keydown,
                             listeners, video >>
             /\ ~hidden => app'.submitBtn = [disabled |-> FALSE,
                                             text |-> "Submit Frame"]
     /\ Ran("modalSubmitted") \/ Ran("modalSubmitFailed")
          => hidden' \/ ~app'.submitBtn.disabled]_vars

\* A request of the modal has failed and the open modal's control, which
\* it had disabled, is enabled again
C24_Witness ==
  /\ app.last.op = "modalSubmitFailed"
  /\ ~hidden
  /\ currentOpenVideoId = "v1"
  /\ app.submitBtn = [disabled |-> FALSE, text |-> "Submit Frame"]
  /\ app.pending = {}

\* C25: when the search request has failed and the search handler has
\* finished, the handler has caught the error, the results container
\* shows the error message and there are no result cards.
C25_SearchFailureShown ==
  app.last.op = "searchFailed"
    => /\ app.last.error # Absent
       /\ app.container = "error"
       /\ app.cards = << >>

\* C26: when the login endpoint answers with a failure, the error the
\* handler catches carries the message of the response ("Login failed"
\* when the response has none), and the stored credentials, the session of
\* appState and the logged-in indicator are what they were before the
\* click: neither the click nor the failure changes them.
C26_LoginFailureKeeps ==
  [][/\ Ran("loginFailed")
          => /\ ~app'.last.input.ok
             /\ Truthy(app'.last.input.error)
                  => app'.last.error = app'.last.input.error
             /\ ~Truthy(app'.last.input.error)
                  => app'.last.error = "Login failed"
             /\ app'.last.alert = "connection failed"
             /\ app'.storage = app.storage
             /\ app'.session = app.session
             /\ app'.loggedIn = app.loggedIn
     /\ Ran("loginClick")
          => /\ app'.storage = app.storage
             /\ app'.session = app.session
             /\ app'.loggedIn = app.loggedIn]_vars

\* A login attempt of a connected page has failed with the server's
\* message and the page is still connected
C26_Witness ==
  /\ app.last.op = "loginFailed"
  /\ app.last.error = "bad credentials"
  /\ app.storage = [sessionId |-> "sid", evaluationId |-> "eid"]
  /\ app.session.connected
  /\ app.loggedIn

\* C27: after a page load, a login step and a disconnect step the session
\* of appState is connected, and the logged-in indicator shows, exactly
\* when both credentials are in local storage.
C27_ConnectedIffStored ==
  app.last.op \in {"load", "login", "loginFailed", "disconnect"}
    => /\ app.session.connected <=> Stored
       /\ app.loggedIn <=> Stored
       /\ Stored => /\ app.session.sessionId = app.storage.sessionId
                    /\ app.session.evaluationId = app.storage.evaluationId

\* A login has stored both credentials and the page is connected
C27_Witness ==
  /\ app.last.op = "login"
  /\ app.storage = [sessionId |-> "sid", evaluationId |-> "eid"]
  /\ app.session = [sessionId |-> "sid", evaluationId |-> "eid",
                    connected |-> TRUE]
  /\ app.loggedIn

\* C28: local storage changes only in a login step whose response is a
\* success, which writes the pair of the response, and in a disconnect
\* step the user confirmed, which removes both; every other step (search,
\* mode switch, filter change, openModal, closeModal, frame step, the two
\* submit handlers and their continuations) leaves the pair as it is.
C28_StorageWriters ==
  [][app'.storage # app.storage
       => \/ /\ Ran("login")
             /\ app'.last.input.ok
             /\ app'.storage = [sessionId |-> app'.last.input.sessionId,
                                evaluationId |-> app'.last.input.evaluationId]
          \/ /\ Ran("disconnect")
             /\ app'.last.input = TRUE
             /\ app'.storage = [sessionId |-> Absent,
                                evaluationId |-> Absent]]_vars

\* A submit from a card has failed on a connected page with the modal
\* open, and the pair is still stored
C28_Witness ==
  /\ app.last.op = "cardSubmitFailed"
  /\ app.storage = [sessionId |-> "sid", evaluationId |-> "eid"]
  /\ ~hidden
  /\ nSessions = MaxSessions

\* C29: a card built from an item whose fps is absent, zero or negative
\* has fps 25, and every session the modal has opened has a positive fps.
C29_FpsDefault ==
  /\ Len(app.cards) = Len(app.allResults)
       => \A i \in DOMAIN app.cards :
            app.allResults[i].fps.kind # "number" \/ app.allResults[i].fps.n <= 0
              => app.cards[i].fps = 25
  /\ \A i \in DOMAIN keydown : keydown[i].fps > 0

\* C30 as stated: the first frame publication after the metadata of the
\* open session has loaded shows frame floor(t * fps) in the info bar and
\* the shared panel, and the time display shows t, t the target time of
\* the session; a session opened at 6.0 s and 25 fps shows frame 150 and
\* 00:06.
C30_ShowsTarget ==
  [][MainLoadedMetadata /\ ~hidden
       => /\ \E e \in effects' : e.op = "updateFrameInfo" /\ e.sess = nSessions
          /\ \A n \in dom'.infobar :
                n.frame = FrameOf(TargetTime(Shown), Shown.fps)
          /\ panel'.frame = FrameOf(TargetTime(Shown), Shown.fps)
          /\ panel'.time = formatTime(TargetTime(Shown))
          /\ FrameOf(600, 25) = 150 /\ formatTime(600) = << 0, 6 >>]_vars

\* C30, amended: the first frame publication after the metadata of the
\* open session has loaded comes after the seek to the target and shows
\* frame floor(p * fps) and the time p, p the target time t capped at the
\* duration of the video, on an element that reports the position it is
\* assigned; a session opened at 6.0 s and 25 fps shows frame 150 and
\* 00:06.
C30_ShowsCappedTarget ==
  [][MainLoadedMetadata /\ ~hidden
       => /\ \E e \in effects' : e.op = "updateFrameInfo" /\ e.sess = nSessions
          /\ video'.currentTime = Min(TargetTime(Shown), video'.duration)
          /\ \A n \in dom'.infobar :
                n.frame = FrameOf(Min(TargetTime(Shown), video'.duration),
                                  Shown.fps)
          /\ panel'.frame = FrameOf(Min(TargetTime(Shown), video'.duration),
                                    Shown.fps)
          /\ panel'.time = formatTime(Min(TargetTime(Shown), video'.duration))
          /\ FrameOf(600, 25) = 150 /\ formatTime(600) = << 0, 6 >>]_vars

\* The metadata of a session opened at 0.45 s has loaded, the seek to the
\* target is under way and the displays show frame 11
C30_Witness ==
  /\ ~hidden
  /\ video.readyState = 1
  /\ video.seeking
  /\ video.currentTime = 45
  /\ \E e \in effects : e.op = "updateFrameInfo" /\ e.sess = nSessions
  /\ \E i \in DOMAIN keydown : keydown[i].id = nSessions /\ keydown[i].startTime = 45
  /\ panel.frame = 11
  /\ \E n \in dom.infobar : n.frame = 11

\* C31: at every moment at most one seek-completion listener of a hover
\* engine is registered on its preview element.
C31_SingleDecode ==
  \A s \in 1..Len(hover) : Len(hover[s].seeked) <= 1

\* C38: with the duration known and no clamping, a +1 step increases the
\* displayed frame by exactly 1, a -1 step from a position of at least
\* 1 / fps decreases it by exactly 1, and a +1 step followed by a -1 step
\* restores the position and the displayed frame.
C38_ExactSteps ==
  [][/\ conversion'.stage = "forward"
          => conversion'.back
               = FrameOfSeconds(conversion.seconds, conversion.fps) + 1
     /\ conversion'.stage = "backward"
          => conversion'.back
               = FrameOfSeconds(conversion.seconds, conversion.fps) - 1
     /\ conversion'.stage = "backward" /\ conversion.stage = "forward"
          => /\ conversion'.seconds
                  = SecondsOf(conversion.frame, conversion.fps)
             /\ conversion'.back
                  = FrameOfSeconds(SecondsOf(conversion.frame, conversion.fps),
                                   conversion.fps)]_vars

\* C32: when a request of the modal's submit handler completes while the
\* modal shows another session than the one that sent it, the modal stays
\* open on that session and its submit control is as it was.
C32_SettlesOwnSession ==
  [][\A r \in app.pending \ app'.pending :
       /\ Ran("modalSubmitted") \/ Ran("modalSubmitFailed")
       /\ r.kind = "modalSubmit"
       /\ ~hidden
       /\ r.sess # nSessions
       => /\ ~hidden'
          /\ UNCHANGED << currentOpenVideoId, nSessions, keydown >>
          /\ app'.submitBtn = app.submitBtn]_vars

\* C33: whenever the page is not connected and no login request is in
\* flight, the Connect button is enabled.
C33_CanConnect ==
  ~app.session.connected /\ (\A r \in app.pending : r.kind # "login")
    => ~app.loginBtn.disabled

\* C34: when a search completes that was issued in another mode than the
\* page is in, nothing of it is rendered or stored: the result state and
\* the cards stay empty, as the mode switch left them.
C34_NoResultsAcrossModes ==
  [][\A r \in app.pending \ app'.pending :
       Ran("search") /\ r.kind = "search" /\ r.mode # app.mode
         => /\ app'.cards = << >>
            /\ app'.allResults = << >>
            /\ app'.filteredResults = << >>
            /\ app'.videoStats = << >>]_vars

\* C35: after a completed search allResults and filteredResults are the
\* result list of that search, the empty list when it returned nothing or
\* failed, and videoStats has the videos of that list and no other.
C35_StateOfLastSearch ==
  app.last.op \in {"search", "searchFailed"}
    => /\ app.allResults = app.last.input.results
       /\ app.filteredResults = app.last.input.results
       /\ DOMAIN app.videoStats
            = { app.last.input.results[i].video_id :
                  i \in DOMAIN app.last.input.results }

\* C36: after every step filteredResults is allResults when
\* selectedVideoId is null and otherwise the items of allResults of the
\* selected video, in their order; a filter change with "all" or an empty
\* id leaves selectedVideoId null, one with a video id selects it, and
\* neither changes allResults or videoStats.
C36_FilteredOfAll ==
  [][/\ app'.selectedVideoId = Absent
          => app'.filteredResults = app'.allResults
     /\ app'.selectedVideoId # Absent
          => app'.filteredResults
               = SelectSeq(app'.allResults,
                           LAMBDA item : item.video_id = app'.selectedVideoId)
     /\ Ran("filterChange")
          => /\ app'.allResults = app.allResults
             /\ app'.videoStats = app.videoStats
             /\ app'.selectedVideoId
                  = IF app'.last.input \in {"all", ""}
                    THEN Absent
                    ELSE app'.last.input]_vars

\* The filter has selected video v1 of the results of two videos
C36_Witness ==
  /\ app.last.op = "filterChange"
  /\ app.selectedVideoId = "v1"
  /\ Len(app.allResults) = 2
  /\ Len(app.filteredResults) = 1
  /\ app.filteredResults[1].video_id = "v1"
  /\ Len(app.cards) = 1

\* C37: after every step videoStats has exactly the video ids of
\* allResults as keys, each with the number of items of that video, and
\* getVideoList has each of them once with its count, in ascending order
\* of the ids.
C37_StatsOfAll ==
  /\ DOMAIN app.videoStats
       = { app.allResults[i].video_id : i \in DOMAIN app.allResults }
  /\ \A v \in DOMAIN app.videoStats :
       app.videoStats[v]
         = Cardinality({ i \in DOMAIN app.allResults :
                           app.allResults[i].video_id = v })
  /\ LET list == getVideoList(app) IN
       /\ Len(list) = Cardinality(DOMAIN app.videoStats)
       /\ \A i \in DOMAIN list :
            /\ list[i].videoId \in DOMAIN app.videoStats
            /\ list[i].count = app.videoStats[list[i].videoId]
            /\ \A j \in DOMAIN list :
                 i < j => Rank(list[i].videoId) < Rank(list[j].videoId)

\* The results of a search hold two items of v3 and one of v2, which came
\* between them
C37_Witness ==
  /\ app.last.op = "search"
  /\ Len(app.allResults) = 3
  /\ app.allResults[1].video_id = "v3"
  /\ app.allResults[2].video_id = "v2"
  /\ getVideoList(app) = << [videoId |-> "v2", count |-> 1],
                            [videoId |-> "v3", count |-> 2] >>

====
